---- MODULE Spec2Model ----
(***************************************************************************)
(* Balancer network synthesis (balancer.py: design_balancer, path.py:      *)
(* split_merge_path).  design_balancer is modelled statement by statement  *)
(* as a state machine over the locals of one invocation; two invocation    *)
(* frames exist so that runs can be compared and interleaved.              *)
(* Python dicts are sequences of <<key, value>> pairs in insertion order,  *)
(* Python strings are sequences of code points, node ids are records       *)
(* [kind, num] that stand for the string kind + str(num).                  *)
(***************************************************************************)
EXTENDS Integers, Sequences, FiniteSets, TLC

\* ------------------------------------------------------------------ bounds

\* longest generic input / output list drawn by Init
MaxLen == 3
\* largest total flow of a generic input / output list drawn by Init
MaxTotal == 4
\* the same two bounds for the runs of two interleaved invocations
MaxLenTwo == 2
MaxTotalTwo == 2
\* the factory's lists of rates: their greatest length and total
MaxRateLen == 3
MaxRateTotal == 4
\* the same two bounds for the single run that is followed to its end
MaxLenRun == 3
MaxTotalRun == 3

\* the invocation frames
Calls == {1, 2}

\* ------------------------------------------------------ test_path.py inputs

FanFlow == 30
FanStart == 2
FanStop == 12
LargeInCount == 3
LargeIn == 480
LargeOut == 45
LargeOutCount == 32
LargeSplitters == 16
LargeMergers == 2

\* ------------------------------------------------------------ Python values

RECURSIVE SumSeq(_)
SumSeq(s) == IF s = <<>> THEN 0 ELSE s[1] + SumSeq(Tail(s))

\* [v] * n
Repeat(v, n) == [k \in 1..n |-> v]

\* str(n) for n >= 0, as code points
RECURSIVE StrInt(_)
StrInt(n) == IF n < 10 THEN <<48 + n>> ELSE Append(StrInt(n \div 10), 48 + (n % 10))

\* int(s) for a string of decimal digits
RECURSIVE IntStr(_)
IntStr(s) ==
    IF s = <<>> THEN 0
    ELSE 10 * IntStr(SubSeq(s, 1, Len(s) - 1)) + (s[Len(s)] - 48)

\* ord() of the letter a node id starts with
KindCode(kind) ==
    CASE kind = "I" -> 73
      [] kind = "M" -> 77
      [] kind = "O" -> 79
      [] kind = "S" -> 83
      [] OTHER -> 95

\* f"I{idx}", f"O{idx}", f"S{n}", f"M{n}", f"_leaf_{dest_id}"
NodeId(kind, num) == [kind |-> kind, num |-> num]

\* the characters of a node id that decide string comparison
NodeStr(id) == <<KindCode(id.kind)>> \o StrInt(id.num)

\* a < b on Python strings
StrLess(a, b) ==
    \/ \E p \in 1..Len(a) :
          /\ p <= Len(b)
          /\ a[p] < b[p]
          /\ \A q \in 1..(p - 1) : a[q] = b[q]
    \/ /\ Len(a) < Len(b)
       /\ \A q \in 1..Len(a) : a[q] = b[q]

\* child_id.startswith("_leaf_")
IsLeaf(id) == id.kind = "_leaf_"

\* ------------------------------------------------------------------- dicts

DictHas(d, k) == \E i \in 1..Len(d) : d[i][1] = k
DictGet(d, k) == d[CHOOSE i \in 1..Len(d) : d[i][1] = k][2]
DictSet(d, k, v) ==
    IF DictHas(d, k)
    THEN [i \in 1..Len(d) |-> IF d[i][1] = k THEN <<k, v>> ELSE d[i]]
    ELSE Append(d, <<k, v>>)
DictValues(d) == [i \in 1..Len(d) |-> d[i][2]]
DictKeys(d) == [i \in 1..Len(d) |-> d[i][1]]

\* d.update(e): one item of e after the other; each assignment is carried out
\* before the next one starts from its result
RECURSIVE DictUpdate(_, _)
DictUpdate(d, e) ==
    IF e = <<>> THEN d
    ELSE CHOOSE r \in {DictUpdate(assigned, Tail(e)) :
                           assigned \in {DictSet(d, e[1][1], e[1][2])}} : TRUE

\* flow_matrix[in_idx][out_idx] = flow on a defaultdict of defaultdicts
MatrixSet(m, in_idx, out_idx, flow) ==
    LET row == IF DictHas(m, in_idx) THEN DictGet(m, in_idx) ELSE <<>>
    IN  DictSet(m, in_idx, DictSet(row, out_idx, flow))

\* sorted(items, key=..., reverse=True): descending by key, equal keys keep
\* their order; Less(x, y) compares the keys of the items x and y
SortedDesc(s, Less(_, _)) ==
    LET n == Len(s)
        before(i) == {j \in 1..n : \/ Less(s[i], s[j])
                                   \/ /\ j < i
                                      /\ ~Less(s[j], s[i])}
        rank(i) == Cardinality(before(i)) + 1
    IN  [p \in 1..n |-> s[CHOOSE i \in 1..n : rank(i) = p]]

\* SplitKeyLess breaking ties toward the lower output index
SplitKeyLessLowIndexFirst(x, y) == x[2] < y[2] \/ (x[2] = y[2] /\ x[1] > y[1])

\* key=lambda x: (x[1], x[0]) on (dest_id, flow) items: ints
SplitKeyLess(x, y) == x[2] < y[2] \/ (x[2] = y[2] /\ x[1] < y[1])

\* key=lambda x: (x[1], x[0]) on (source_id, flow) items: source_id is a str
MergeKeyLess(x, y) ==
    x[2] < y[2] \/ (x[2] = y[2] /\ StrLess(NodeStr(x[1]), NodeStr(y[1])))

\* ------------------------------------------------------------------- state

VARIABLES
    fn,                \* per frame: the function invoked
    inputs,            \* per frame: argument inputs
    outputs,           \* per frame: argument outputs
    pc,                \* per frame: position in the function body
    error,             \* per frame: the totals named by the raised ValueError
    flow_matrix,       \* per frame: {in_idx: {out_idx: flow}}
    available_inputs,  \* per frame: queue of (in_idx, flow)
    out_idx,           \* per frame: loop variable of both loops over outputs
    remaining,         \* per frame: unmet demand of the current output
    nodes,             \* per frame: dot.node calls, in order
    edges,             \* per frame: dot.edge calls, in order
    device_counter,    \* per counter cell: device_counter[0]
    split_pos,         \* per frame: position in flow_matrix.items()
    roots,             \* per frame: build_split_tree's roots
    dest_sources,      \* per frame: build_split_tree's dest_sources
    input_outputs,     \* per frame: {in_idx: {out_idx: (node, flow)}}
    sources,           \* per frame: sources collected for the current output
    streams,           \* per frame: build_merge_tree's streams
    source_flows,      \* per frame: the factory's source rates, if it is the caller
    sink_flows         \* per frame: the factory's sink rates, if it is the caller

vars == <<fn, inputs, outputs, pc, error, flow_matrix, available_inputs,
          out_idx, remaining, nodes, edges, device_counter, split_pos, roots,
          dest_sources, input_outputs, sources, streams, source_flows,
          sink_flows>>

\* the call's arguments and its caller's rates: no statement of
\* design_balancer or split_merge_path assigns them
args == <<fn, inputs, outputs, source_flows, sink_flows>>
\* the locals of phase 1
assign_vars == <<flow_matrix, available_inputs, remaining>>
\* the graph under construction
graph_vars == <<nodes, edges, device_counter>>
\* the locals of build_split_tree and of the loop around it
split_vars == <<split_pos, roots, dest_sources, input_outputs>>
\* the locals of build_merge_tree and of the loop around it
merge_vars == <<sources, streams>>

Upd(f, c, v) == [f EXCEPT ![c] = v]

\* list(enumerate(xs))
Enumerate(xs) == [k \in 1..Len(xs) |-> <<k - 1, xs[k]>>]

\* one module-level counter cell used by every invocation
SharedCounterCell(c) == 1

\* the list cell `device_counter = [0]` of invocation c: every invocation
\* allocates its own
CounterCell(c) == c

\* dot.edge(src, dst, label=str(flow))
Edge(src, dst, flow) == [src |-> src, dst |-> dst, label |-> StrInt(flow)]

\* ------------------------------------------------- phase 1: flow assignment

\* line 18-19: the totals differ, ValueError naming both
RaiseInfeasible(c) ==
    /\ pc[c] = "start"
    /\ fn[c] = "design_balancer"
    /\ SumSeq(inputs[c]) # SumSeq(outputs[c])
    /\ error' = Upd(error, c, <<StrInt(SumSeq(inputs[c])), StrInt(SumSeq(outputs[c]))>>)
    /\ pc' = Upd(pc, c, "raised")
    /\ UNCHANGED <<args, assign_vars, out_idx, graph_vars, split_vars, merge_vars>>

\* StartAssignment without the feasibility check of line 18
StartAssignmentUnchecked(c) ==
    /\ pc[c] = "start"
    /\ fn[c] = "design_balancer"
    /\ flow_matrix' = Upd(flow_matrix, c, <<>>)
    /\ available_inputs' = Upd(available_inputs, c, Enumerate(inputs[c]))
    /\ out_idx' = Upd(out_idx, c, 0)
    /\ pc' = Upd(pc, c, "assign_for")
    /\ UNCHANGED <<args, error, remaining, graph_vars, split_vars, merge_vars>>

\* line 18-24: the totals agree; empty matrix, queue of all inputs
StartAssignment(c) ==
    /\ pc[c] = "start"
    /\ fn[c] = "design_balancer"
    /\ SumSeq(inputs[c]) = SumSeq(outputs[c])
    /\ flow_matrix' = Upd(flow_matrix, c, <<>>)
    /\ available_inputs' = Upd(available_inputs, c, Enumerate(inputs[c]))
    /\ out_idx' = Upd(out_idx, c, 0)
    /\ pc' = Upd(pc, c, "assign_for")
    /\ UNCHANGED <<args, error, remaining, graph_vars, split_vars, merge_vars>>

\* line 26-27: the next output, if any
NextOutput(c) ==
    /\ pc[c] = "assign_for"
    /\ out_idx[c] < Len(outputs[c])
    /\ remaining' = Upd(remaining, c, outputs[c][out_idx[c] + 1])
    /\ pc' = Upd(pc, c, "assign_while")
    /\ UNCHANGED <<args, error, flow_matrix, available_inputs, out_idx,
                   graph_vars, split_vars, merge_vars>>

\* line 29: the loop condition
AssignCond(c) == remaining[c] > 0 /\ available_inputs[c] # <<>>

\* AssignFull recording the demand instead of the input's flow
AssignFullRecordsDemand(c) ==
    /\ pc[c] = "assign_while"
    /\ AssignCond(c)
    /\ LET in_idx == Head(available_inputs[c])[1]
           in_flow == Head(available_inputs[c])[2]
       IN  /\ in_flow <= remaining[c]
           /\ flow_matrix' = Upd(flow_matrix, c,
                                 MatrixSet(flow_matrix[c], in_idx, out_idx[c], remaining[c]))
           /\ remaining' = Upd(remaining, c, remaining[c] - in_flow)
           /\ available_inputs' = Upd(available_inputs, c, Tail(available_inputs[c]))
    /\ UNCHANGED <<args, pc, error, out_idx, graph_vars, split_vars, merge_vars>>

\* AssignFull leaving the demand as it was
AssignFullNoDeduct(c) ==
    /\ pc[c] = "assign_while"
    /\ AssignCond(c)
    /\ LET in_idx == Head(available_inputs[c])[1]
           in_flow == Head(available_inputs[c])[2]
       IN  /\ in_flow <= remaining[c]
           /\ flow_matrix' = Upd(flow_matrix, c,
                                 MatrixSet(flow_matrix[c], in_idx, out_idx[c], in_flow))
           /\ available_inputs' = Upd(available_inputs, c, Tail(available_inputs[c]))
    /\ UNCHANGED <<args, pc, error, remaining, out_idx, graph_vars, split_vars,
                   merge_vars>>

\* line 30-34: the input at the front fits into the output, use all of it
AssignFull(c) ==
    /\ pc[c] = "assign_while"
    /\ AssignCond(c)
    /\ LET in_idx == Head(available_inputs[c])[1]
           in_flow == Head(available_inputs[c])[2]
       IN  /\ in_flow <= remaining[c]
           /\ flow_matrix' = Upd(flow_matrix, c,
                                 MatrixSet(flow_matrix[c], in_idx, out_idx[c], in_flow))
           /\ remaining' = Upd(remaining, c, remaining[c] - in_flow)
           /\ available_inputs' = Upd(available_inputs, c, Tail(available_inputs[c]))
    /\ UNCHANGED <<args, pc, error, out_idx, graph_vars, split_vars, merge_vars>>

\* AssignPartial putting the whole input back, the used part not deducted
AssignPartialNoDeduct(c) ==
    /\ pc[c] = "assign_while"
    /\ AssignCond(c)
    /\ LET in_idx == Head(available_inputs[c])[1]
           in_flow == Head(available_inputs[c])[2]
       IN  /\ in_flow > remaining[c]
           /\ flow_matrix' = Upd(flow_matrix, c,
                                 MatrixSet(flow_matrix[c], in_idx, out_idx[c], remaining[c]))
           /\ available_inputs' = Upd(available_inputs, c,
                  <<<<in_idx, in_flow>>>> \o Tail(available_inputs[c]))
           /\ remaining' = Upd(remaining, c, 0)
    /\ UNCHANGED <<args, pc, error, out_idx, graph_vars, split_vars, merge_vars>>

\* AssignPartial putting the rest back at the end of the queue
AssignPartialRequeueBack(c) ==
    /\ pc[c] = "assign_while"
    /\ AssignCond(c)
    /\ LET in_idx == Head(available_inputs[c])[1]
           in_flow == Head(available_inputs[c])[2]
       IN  /\ in_flow > remaining[c]
           /\ flow_matrix' = Upd(flow_matrix, c,
                                 MatrixSet(flow_matrix[c], in_idx, out_idx[c], remaining[c]))
           /\ available_inputs' = Upd(available_inputs, c,
                  Append(Tail(available_inputs[c]), <<in_idx, in_flow - remaining[c]>>))
           /\ remaining' = Upd(remaining, c, 0)
    /\ UNCHANGED <<args, pc, error, out_idx, graph_vars, split_vars, merge_vars>>

\* AssignPartial recording the entry only: the input goes back whole and the
\* demand stays as it was
AssignPartialNoProgress(c) ==
    /\ pc[c] = "assign_while"
    /\ AssignCond(c)
    /\ LET in_idx == Head(available_inputs[c])[1]
           in_flow == Head(available_inputs[c])[2]
       IN  /\ in_flow > remaining[c]
           /\ flow_matrix' = Upd(flow_matrix, c,
                                 MatrixSet(flow_matrix[c], in_idx, out_idx[c], remaining[c]))
    /\ UNCHANGED <<args, pc, error, available_inputs, remaining, out_idx,
                   graph_vars, split_vars, merge_vars>>

\* line 30, 35-38: the input at the front exceeds the demand, use part of it
\* and put the rest back at the front
AssignPartial(c) ==
    /\ pc[c] = "assign_while"
    /\ AssignCond(c)
    /\ LET in_idx == Head(available_inputs[c])[1]
           in_flow == Head(available_inputs[c])[2]
       IN  /\ in_flow > remaining[c]
           /\ flow_matrix' = Upd(flow_matrix, c,
                                 MatrixSet(flow_matrix[c], in_idx, out_idx[c], remaining[c]))
           /\ available_inputs' = Upd(available_inputs, c,
                  <<<<in_idx, in_flow - remaining[c]>>>> \o Tail(available_inputs[c]))
           /\ remaining' = Upd(remaining, c, 0)
    /\ UNCHANGED <<args, pc, error, out_idx, graph_vars, split_vars, merge_vars>>

\* line 29, 26: the inner loop ends, on to the next output
OutputAssigned(c) ==
    /\ pc[c] = "assign_while"
    /\ ~AssignCond(c)
    /\ out_idx' = Upd(out_idx, c, out_idx[c] + 1)
    /\ pc' = Upd(pc, c, "assign_for")
    /\ UNCHANGED <<args, error, assign_vars, graph_vars, split_vars, merge_vars>>

\* line 26: no output left
AssignmentDone(c) ==
    /\ pc[c] = "assign_for"
    /\ out_idx[c] >= Len(outputs[c])
    /\ pc' = Upd(pc, c, "graph")
    /\ UNCHANGED <<args, error, assign_vars, out_idx, graph_vars, split_vars, merge_vars>>

\* CreateGraph creating nodes for the inputs and outputs of positive
\* magnitude only
CreateGraphUsedOnly(c) ==
    /\ pc[c] = "graph"
    /\ nodes' = Upd(nodes, c,
                    LET used(n) == IF n.kind = "I" THEN inputs[c][n.num + 1] > 0
                                   ELSE outputs[c][n.num + 1] > 0
                    IN  SelectSeq([k \in 1..Len(inputs[c]) |-> NodeId("I", k - 1)]
                                  \o [k \in 1..Len(outputs[c]) |-> NodeId("O", k - 1)],
                                  used))
    /\ edges' = Upd(edges, c, <<>>)
    /\ device_counter' = Upd(device_counter, CounterCell(c), 0)
    /\ split_pos' = Upd(split_pos, c, 0)
    /\ pc' = Upd(pc, c, "split_for")
    /\ UNCHANGED <<args, error, assign_vars, out_idx, roots, dest_sources,
                   input_outputs, merge_vars>>

\* line 41-54: the Digraph, one node per input, one per output, the counter
CreateGraph(c) ==
    /\ pc[c] = "graph"
    /\ nodes' = Upd(nodes, c,
                    [k \in 1..Len(inputs[c]) |-> NodeId("I", k - 1)]
                    \o [k \in 1..Len(outputs[c]) |-> NodeId("O", k - 1)])
    /\ edges' = Upd(edges, c, <<>>)
    /\ device_counter' = Upd(device_counter, CounterCell(c), 0)
    /\ split_pos' = Upd(split_pos, c, 0)
    /\ pc' = Upd(pc, c, "split_for")
    /\ UNCHANGED <<args, error, assign_vars, out_idx, roots, dest_sources,
                   input_outputs, merge_vars>>

\* ------------------------------------------------- phase 2a: the split trees

\* line 204-205: the item of flow_matrix.items() the loop is at
CurInIdx(c) == flow_matrix[c][split_pos[c] + 1][1]
CurFlowsDict(c) == flow_matrix[c][split_pos[c] + 1][2]
CurSourceId(c) == NodeId("I", CurInIdx(c))

\* line 62-65, 205: one destination, fed by the source itself, no device
SplitTreeSingle(c) ==
    /\ pc[c] = "split_for"
    /\ split_pos[c] < Len(flow_matrix[c])
    /\ Len(CurFlowsDict(c)) = 1
    /\ LET dest_id == DictKeys(CurFlowsDict(c))[1]
           flow == DictGet(CurFlowsDict(c), dest_id)
       IN  input_outputs' = Upd(input_outputs, c,
               DictSet(input_outputs[c], CurInIdx(c),
                       <<<<dest_id, <<CurSourceId(c), flow>>>>>>))
    /\ split_pos' = Upd(split_pos, c, split_pos[c] + 1)
    /\ UNCHANGED <<args, pc, error, assign_vars, out_idx, graph_vars, roots,
                   dest_sources, merge_vars>>

\* line 67-78: sort the destinations, one leaf root each
SplitTreeBegin(c) ==
    /\ pc[c] = "split_for"
    /\ split_pos[c] < Len(flow_matrix[c])
    /\ Len(CurFlowsDict(c)) # 1
    /\ LET destinations == SortedDesc(CurFlowsDict(c), SplitKeyLess)
       IN  roots' = Upd(roots, c,
               [k \in 1..Len(destinations) |->
                   <<NodeId("_leaf_", destinations[k][1]),
                     <<<<destinations[k][1], destinations[k][2]>>>>>>])
    /\ dest_sources' = Upd(dest_sources, c, <<>>)
    /\ pc' = Upd(pc, c, "split_while")
    /\ UNCHANGED <<args, error, assign_vars, out_idx, graph_vars, split_pos,
                   input_outputs, merge_vars>>

\* SplitChildEdges labelling the edge with the first flow of the child, not
\* the total
RECURSIVE SplitChildEdgesFirstFlow(_, _)
SplitChildEdgesFirstFlow(splitter_id, group) ==
    IF group = <<>> THEN <<>>
    ELSE LET child_id == group[1][1]
             child_flow == DictValues(group[1][2])[1]
         IN  (IF IsLeaf(child_id) THEN <<>>
              ELSE <<Edge(splitter_id, child_id, child_flow)>>)
             \o SplitChildEdgesFirstFlow(splitter_id, Tail(group))

\* line 96-108: the edges splitter -> child for the children that are devices
RECURSIVE SplitChildEdges(_, _)
SplitChildEdges(splitter_id, group) ==
    IF group = <<>> THEN <<>>
    ELSE LET child_id == group[1][1]
             child_flow == SumSeq(DictValues(group[1][2]))
         IN  (IF IsLeaf(child_id) THEN <<>>
              ELSE <<Edge(splitter_id, child_id, child_flow)>>)
             \o SplitChildEdges(splitter_id, Tail(group))

\* line 104-105: dest_sources[dest_id] = (splitter_id, child_dests[dest_id])
LeafFeeds(splitter_id, child_dests) ==
    [k \in 1..Len(child_dests) |->
        <<child_dests[k][1], <<splitter_id, child_dests[k][2]>>>>]

\* line 96-105: dest_sources after the children that are leaves are recorded
RECURSIVE SplitChildFeeds(_, _, _)
SplitChildFeeds(ds, splitter_id, group) ==
    IF group = <<>> THEN ds
    ELSE CHOOSE r \in {SplitChildFeeds(recorded, splitter_id, Tail(group)) :
                           recorded \in {IF IsLeaf(group[1][1])
                                         THEN DictUpdate(ds, LeafFeeds(splitter_id,
                                                                       group[1][2]))
                                         ELSE ds}} : TRUE

\* line 95, 110: merged_dests after every child's update
RECURSIVE MergedDests(_, _)
MergedDests(acc, group) ==
    IF group = <<>> THEN acc
    ELSE CHOOSE r \in {MergedDests(updated, Tail(group)) :
                           updated \in {DictUpdate(acc, group[1][2])}} : TRUE

\* GroupUnderSplitter numbering the splitters of every tree from 0 on, by the
\* destinations the tree feeds already
GroupUnderSplitterTreeLocalIds(c, k) ==
    LET group == SubSeq(roots[c], 1, k)
        rest == SubSeq(roots[c], k + 1, Len(roots[c]))
        splitter_id == NodeId("S", Len(dest_sources[c]))
    IN  /\ device_counter' = Upd(device_counter, CounterCell(c),
                                 device_counter[CounterCell(c)] + 1)
        /\ nodes' = Upd(nodes, c, Append(nodes[c], splitter_id))
        /\ edges' = Upd(edges, c, edges[c] \o SplitChildEdges(splitter_id, group))
        /\ dest_sources' = Upd(dest_sources, c,
                               SplitChildFeeds(dest_sources[c], splitter_id, group))
        /\ roots' = Upd(roots, c,
                        Append(rest, <<splitter_id, MergedDests(<<>>, group)>>))

\* line 86-113 (k = 3), 116-136 (k = 2): the first k roots under a new splitter
GroupUnderSplitter(c, k) ==
    LET group == SubSeq(roots[c], 1, k)
        rest == SubSeq(roots[c], k + 1, Len(roots[c]))
        splitter_id == NodeId("S", device_counter[CounterCell(c)])
    IN  /\ device_counter' = Upd(device_counter, CounterCell(c),
                                 device_counter[CounterCell(c)] + 1)
        /\ nodes' = Upd(nodes, c, Append(nodes[c], splitter_id))
        /\ edges' = Upd(edges, c, edges[c] \o SplitChildEdges(splitter_id, group))
        /\ dest_sources' = Upd(dest_sources, c,
                               SplitChildFeeds(dest_sources[c], splitter_id, group))
        /\ roots' = Upd(roots, c,
                        Append(rest, <<splitter_id, MergedDests(<<>>, group)>>))

\* ThreeWaySplit grouping two roots only
ThreeWaySplitPairs(c) ==
    /\ pc[c] = "split_while"
    /\ Len(roots[c]) > 1
    /\ Len(roots[c]) >= 3
    /\ GroupUnderSplitter(c, 2)
    /\ UNCHANGED <<args, pc, error, assign_vars, out_idx, split_pos,
                   input_outputs, merge_vars>>

\* line 81-113: three or more roots remain
ThreeWaySplit(c) ==
    /\ pc[c] = "split_while"
    /\ Len(roots[c]) > 1
    /\ Len(roots[c]) >= 3
    /\ GroupUnderSplitter(c, 3)
    /\ UNCHANGED <<args, pc, error, assign_vars, out_idx, split_pos,
                   input_outputs, merge_vars>>

\* line 81-84, 114-136: two roots remain
TwoWaySplit(c) ==
    /\ pc[c] = "split_while"
    /\ Len(roots[c]) > 1
    /\ ~(Len(roots[c]) >= 3)
    /\ GroupUnderSplitter(c, 2)
    /\ UNCHANGED <<args, pc, error, assign_vars, out_idx, split_pos,
                   input_outputs, merge_vars>>

\* line 144-150: the node that feeds each destination
SplitResult(flows_dict, ds, root_id) ==
    [k \in 1..Len(flows_dict) |->
        <<flows_dict[k][1],
          IF DictHas(ds, flows_dict[k][1])
          THEN DictGet(ds, flows_dict[k][1])
          ELSE <<root_id, flows_dict[k][2]>>>>]

\* line 81, 138-152, 205: one root is left; the source feeds it
SplitTreeEnd(c) ==
    /\ pc[c] = "split_while"
    /\ ~(Len(roots[c]) > 1)
    /\ LET root_id == roots[c][1][1]
           root_flow == SumSeq(DictValues(roots[c][1][2]))
       IN  /\ edges' = Upd(edges, c,
                           Append(edges[c], Edge(CurSourceId(c), root_id, root_flow)))
           /\ input_outputs' = Upd(input_outputs, c,
                  DictSet(input_outputs[c], CurInIdx(c),
                          SplitResult(CurFlowsDict(c), dest_sources[c], root_id)))
    /\ split_pos' = Upd(split_pos, c, split_pos[c] + 1)
    /\ pc' = Upd(pc, c, "split_for")
    /\ UNCHANGED <<args, error, assign_vars, out_idx, nodes, device_counter,
                   roots, dest_sources, merge_vars>>

\* line 204, 208: every input has its tree; on to the outputs
SplitTreesDone(c) ==
    /\ pc[c] = "split_for"
    /\ split_pos[c] >= Len(flow_matrix[c])
    /\ out_idx' = Upd(out_idx, c, 0)
    /\ pc' = Upd(pc, c, "merge_for")
    /\ UNCHANGED <<args, error, assign_vars, graph_vars, split_vars, merge_vars>>

\* ------------------------------------------------- phase 2b: the merge trees

\* line 210-214: sources[source_node] = flow over flow_matrix.items()
RECURSIVE CollectSources(_, _, _, _)
CollectSources(acc, matrix, io, out) ==
    IF matrix = <<>> THEN acc
    ELSE LET in_idx == matrix[1][1]
             out_flows == matrix[1][2]
         IN  CHOOSE r \in {CollectSources(collected, Tail(matrix), io, out) :
                    collected \in {IF DictHas(out_flows, out)
                                   THEN LET fed == DictGet(DictGet(io, in_idx), out)
                                        IN  DictSet(acc, fed[1], fed[2])
                                   ELSE acc}} : TRUE

CurSources(c) == CollectSources(<<>>, flow_matrix[c], input_outputs[c], out_idx[c])
CurOutputId(c) == NodeId("O", out_idx[c])

\* line 208-216, 221: nothing feeds this output
NoSource(c) ==
    /\ pc[c] = "merge_for"
    /\ out_idx[c] < Len(outputs[c])
    /\ Len(CurSources(c)) = 0
    /\ sources' = Upd(sources, c, CurSources(c))
    /\ out_idx' = Upd(out_idx, c, out_idx[c] + 1)
    /\ UNCHANGED <<args, pc, error, assign_vars, graph_vars, split_vars, streams>>

\* line 208-220: one node feeds this output, connect it directly
DirectConnection(c) ==
    /\ pc[c] = "merge_for"
    /\ out_idx[c] < Len(outputs[c])
    /\ Len(CurSources(c)) = 1
    /\ sources' = Upd(sources, c, CurSources(c))
    /\ LET source_node == DictKeys(CurSources(c))[1]
           flow == DictGet(CurSources(c), source_node)
       IN  edges' = Upd(edges, c,
                        Append(edges[c], Edge(source_node, CurOutputId(c), flow)))
    /\ out_idx' = Upd(out_idx, c, out_idx[c] + 1)
    /\ UNCHANGED <<args, pc, error, assign_vars, nodes, device_counter,
                   split_vars, streams>>

\* line 208-214, 221-223, 159-167: several nodes feed this output; sort them,
\* one stream each
MergeTreeBegin(c) ==
    /\ pc[c] = "merge_for"
    /\ out_idx[c] < Len(outputs[c])
    /\ \E collected \in {CurSources(c)} :
          /\ Len(collected) > 1
          /\ sources' = Upd(sources, c, collected)
          /\ streams' = Upd(streams, c, SortedDesc(collected, MergeKeyLess))
    /\ pc' = Upd(pc, c, "merge_while")
    /\ UNCHANGED <<args, error, assign_vars, out_idx, graph_vars, split_vars>>

\* MergeEdges drawing every edge from the merger to the stream
MergeEdgesReversed(to_merge, merger_id) ==
    [k \in 1..Len(to_merge) |-> Edge(merger_id, to_merge[k][1], to_merge[k][2])]

\* line 183-184: the edges stream -> merger
MergeEdges(to_merge, merger_id) ==
    [k \in 1..Len(to_merge) |-> Edge(to_merge[k][1], merger_id, to_merge[k][2])]

\* GroupUnderMerger numbering the mergers with a counter of their own
GroupUnderMergerOwnCounter(c, k) ==
    LET is_merger(n) == n.kind = "M"
        merger_id == NodeId("M", Len(SelectSeq(nodes[c], is_merger)))
        to_merge == SubSeq(streams[c], 1, k)
        rest == SubSeq(streams[c], k + 1, Len(streams[c]))
        merge_flow == SumSeq(DictValues(to_merge))
    IN  /\ UNCHANGED device_counter
        /\ nodes' = Upd(nodes, c, Append(nodes[c], merger_id))
        /\ edges' = Upd(edges, c, edges[c] \o MergeEdges(to_merge, merger_id))
        /\ streams' = Upd(streams, c, Append(rest, <<merger_id, merge_flow>>))

\* line 175-186 (k = 3), 189-198 (k = 2): the first k streams into a new merger
GroupUnderMerger(c, k) ==
    LET merger_id == NodeId("M", device_counter[CounterCell(c)])
        to_merge == SubSeq(streams[c], 1, k)
        rest == SubSeq(streams[c], k + 1, Len(streams[c]))
        merge_flow == SumSeq(DictValues(to_merge))
    IN  /\ device_counter' = Upd(device_counter, CounterCell(c),
                                 device_counter[CounterCell(c)] + 1)
        /\ nodes' = Upd(nodes, c, Append(nodes[c], merger_id))
        /\ edges' = Upd(edges, c, edges[c] \o MergeEdges(to_merge, merger_id))
        /\ streams' = Upd(streams, c, Append(rest, <<merger_id, merge_flow>>))

\* ThreeWayMerge merging two streams only
ThreeWayMergePairs(c) ==
    /\ pc[c] = "merge_while"
    /\ Len(streams[c]) > 1
    /\ Len(streams[c]) >= 3
    /\ GroupUnderMerger(c, 2)
    /\ UNCHANGED <<args, pc, error, assign_vars, out_idx, split_vars, sources>>

\* ThreeWayMerge merging every remaining stream at once
ThreeWayMergeAll(c) ==
    /\ pc[c] = "merge_while"
    /\ Len(streams[c]) > 1
    /\ Len(streams[c]) >= 3
    /\ GroupUnderMerger(c, Len(streams[c]))
    /\ UNCHANGED <<args, pc, error, assign_vars, out_idx, split_vars, sources>>

\* line 170-186: three or more streams remain
ThreeWayMerge(c) ==
    /\ pc[c] = "merge_while"
    /\ Len(streams[c]) > 1
    /\ Len(streams[c]) >= 3
    /\ GroupUnderMerger(c, 3)
    /\ UNCHANGED <<args, pc, error, assign_vars, out_idx, split_vars, sources>>

\* line 170-173, 187-198: two streams remain
TwoWayMerge(c) ==
    /\ pc[c] = "merge_while"
    /\ Len(streams[c]) > 1
    /\ ~(Len(streams[c]) >= 3)
    /\ GroupUnderMerger(c, 2)
    /\ UNCHANGED <<args, pc, error, assign_vars, out_idx, split_vars, sources>>

\* MergeTreeEnd labelling the last edge with the stale loop variable `flow`
\* of line 213 (the flow of the source collected last) instead of the total
MergeTreeEndStaleFlow(c) ==
    /\ pc[c] = "merge_while"
    /\ ~(Len(streams[c]) > 1)
    /\ LET merged_node == streams[c][1][1]
           final_flow == sources[c][Len(sources[c])][2]
       IN  edges' = Upd(edges, c,
                        Append(edges[c], Edge(merged_node, CurOutputId(c), final_flow)))
    /\ out_idx' = Upd(out_idx, c, out_idx[c] + 1)
    /\ pc' = Upd(pc, c, "merge_for")
    /\ UNCHANGED <<args, error, assign_vars, nodes, device_counter, split_vars,
                   merge_vars>>

\* line 170, 200, 223-225: one stream is left; it feeds the output
MergeTreeEnd(c) ==
    /\ pc[c] = "merge_while"
    /\ ~(Len(streams[c]) > 1)
    /\ LET merged_node == streams[c][1][1]
           final_flow == SumSeq(DictValues(sources[c]))
       IN  edges' = Upd(edges, c,
                        Append(edges[c], Edge(merged_node, CurOutputId(c), final_flow)))
    /\ out_idx' = Upd(out_idx, c, out_idx[c] + 1)
    /\ pc' = Upd(pc, c, "merge_for")
    /\ UNCHANGED <<args, error, assign_vars, nodes, device_counter, split_vars,
                   merge_vars>>

\* line 208, 227: every output is wired; return dot
ReturnGraph(c) ==
    /\ pc[c] = "merge_for"
    /\ out_idx[c] >= Len(outputs[c])
    /\ pc' = Upd(pc, c, "returned")
    /\ UNCHANGED <<args, error, assign_vars, out_idx, graph_vars, split_vars,
                   merge_vars>>

\* ------------------------------------- design_balancer run without a pause
\* The same statements as the actions above, the loops as operators over the
\* record of the locals they change; g is the graph so far,
\* [nodes, edges, counter].

\* line 29-38: the inner loop for output out over the locals
\* st = [flow_matrix, available_inputs, remaining]
RECURSIVE RunAssignWhile(_, _)
RunAssignWhile(st, out) ==
    IF ~(st.remaining > 0 /\ st.available_inputs # <<>>) THEN st
    ELSE LET in_idx == Head(st.available_inputs)[1]
             in_flow == Head(st.available_inputs)[2]
         IN  IF in_flow <= st.remaining
             THEN RunAssignWhile(
                      [flow_matrix |-> MatrixSet(st.flow_matrix, in_idx, out, in_flow),
                       available_inputs |-> Tail(st.available_inputs),
                       remaining |-> st.remaining - in_flow], out)
             ELSE RunAssignWhile(
                      [flow_matrix |-> MatrixSet(st.flow_matrix, in_idx, out, st.remaining),
                       available_inputs |-> <<<<in_idx, in_flow - st.remaining>>>>
                                            \o Tail(st.available_inputs),
                       remaining |-> 0], out)

\* line 26-38: the iterations of the loop for the outputs lo..hi-1, in order
RECURSIVE RunAssignFor(_, _, _, _)
RunAssignFor(st, o, lo, hi) ==
    IF hi <= lo THEN st
    ELSE IF hi = lo + 1
         THEN RunAssignWhile([st EXCEPT !.remaining = o[lo + 1]], lo)
         ELSE LET mid == (lo + hi) \div 2
                  first == RunAssignFor(st, o, lo, mid)
              IN  CASE first = first -> RunAssignFor(first, o, mid, hi)

\* line 22-38: the locals after phase 1
RunAssignment(i, o) ==
    RunAssignFor([flow_matrix |-> <<>>, available_inputs |-> Enumerate(i),
                  remaining |-> 0], o, 0, Len(o))

\* line 81-136: group the first roots until one is left;
\* st = [roots, dest_sources, g]
RECURSIVE RunSplitWhile(_)
RunSplitWhile(st) ==
    IF ~(Len(st.roots) > 1) THEN st
    ELSE LET k == IF Len(st.roots) >= 3 THEN 3 ELSE 2
             group == SubSeq(st.roots, 1, k)
             rest == SubSeq(st.roots, k + 1, Len(st.roots))
             splitter_id == NodeId("S", st.g.counter)
         IN  RunSplitWhile(
                 [roots |-> Append(rest, <<splitter_id, MergedDests(<<>>, group)>>),
                  dest_sources |-> SplitChildFeeds(st.dest_sources, splitter_id, group),
                  g |-> [nodes |-> Append(st.g.nodes, splitter_id),
                         edges |-> st.g.edges \o SplitChildEdges(splitter_id, group),
                         counter |-> st.g.counter + 1]])

\* line 56-152: [result |-> {dest_id: (node_id, flow)}, g |-> the graph]
RunBuildSplitTree(source_id, flows_dict, g) ==
    IF Len(flows_dict) = 1
    THEN [result |-> <<<<flows_dict[1][1], <<source_id, flows_dict[1][2]>>>>>>, g |-> g]
    ELSE LET destinations == SortedDesc(flows_dict, SplitKeyLess)
             r == RunSplitWhile(
                      [roots |-> [k \in 1..Len(destinations) |->
                                     <<NodeId("_leaf_", destinations[k][1]),
                                       <<<<destinations[k][1], destinations[k][2]>>>>>>],
                       dest_sources |-> <<>>,
                       g |-> g])
             root_id == r.roots[1][1]
             root_flow == SumSeq(DictValues(r.roots[1][2]))
         IN  [result |-> SplitResult(flows_dict, r.dest_sources, root_id),
              g |-> [r.g EXCEPT !.edges = Append(r.g.edges,
                                                 Edge(source_id, root_id, root_flow))]]

\* line 203-205: the split trees of the matrix rows lo+1..hi, in order;
\* st = [input_outputs, g]
RECURSIVE RunSplitTrees(_, _, _, _)
RunSplitTrees(st, matrix, lo, hi) ==
    IF hi <= lo THEN st
    ELSE IF hi = lo + 1
         THEN LET r == RunBuildSplitTree(NodeId("I", matrix[hi][1]), matrix[hi][2], st.g)
              IN  [input_outputs |-> DictSet(st.input_outputs, matrix[hi][1], r.result),
                   g |-> r.g]
         ELSE LET mid == (lo + hi) \div 2
                  first == RunSplitTrees(st, matrix, lo, mid)
              IN  CASE first = first -> RunSplitTrees(first, matrix, mid, hi)

\* line 170-198: merge the first streams until one is left; st = [streams, g]
RECURSIVE RunMergeWhile(_)
RunMergeWhile(st) ==
    IF ~(Len(st.streams) > 1) THEN st
    ELSE LET k == IF Len(st.streams) >= 3 THEN 3 ELSE 2
             merger_id == NodeId("M", st.g.counter)
             to_merge == SubSeq(st.streams, 1, k)
             merge_flow == SumSeq(DictValues(to_merge))
         IN  RunMergeWhile(
                 [streams |-> Append(SubSeq(st.streams, k + 1, Len(st.streams)),
                                     <<merger_id, merge_flow>>),
                  g |-> [nodes |-> Append(st.g.nodes, merger_id),
                         edges |-> st.g.edges \o MergeEdges(to_merge, merger_id),
                         counter |-> st.g.counter + 1]])

\* line 209-225: one iteration of the loop over the outputs
RunWireOutput(matrix, io, out, g) ==
    LET srcs == CollectSources(<<>>, matrix, io, out)
        r == RunMergeWhile([streams |-> SortedDesc(srcs, MergeKeyLess), g |-> g])
    IN  IF Len(srcs) = 1
        THEN [g EXCEPT !.edges = Append(g.edges,
                                        Edge(srcs[1][1], NodeId("O", out), srcs[1][2]))]
        ELSE IF Len(srcs) > 1
        THEN [r.g EXCEPT !.edges = Append(r.g.edges,
                                          Edge(r.streams[1][1], NodeId("O", out),
                                               SumSeq(DictValues(srcs))))]
        ELSE g

\* line 208-225: the iterations of the loop for the outputs lo..hi-1, in order
RECURSIVE RunMergeTrees(_, _, _, _, _)
RunMergeTrees(matrix, io, lo, hi, g) ==
    IF hi <= lo THEN g
    ELSE IF hi = lo + 1 THEN RunWireOutput(matrix, io, lo, g)
    ELSE LET mid == (lo + hi) \div 2
             first == RunMergeTrees(matrix, io, lo, mid, g)
         IN  CASE first = first -> RunMergeTrees(matrix, io, mid, hi, first)

\* line 21-227, for sum(i) = sum(o): the graph design_balancer returns when
\* nothing else runs
RunDesignBalancer(i, o) ==
    LET matrix == RunAssignment(i, o).flow_matrix
        g0 == [nodes |-> [k \in 1..Len(i) |-> NodeId("I", k - 1)]
                         \o [k \in 1..Len(o) |-> NodeId("O", k - 1)],
               edges |-> <<>>,
               counter |-> 0]
        r == RunSplitTrees([input_outputs |-> <<>>, g |-> g0], matrix, 0, Len(matrix))
    IN  RunMergeTrees(matrix, r.input_outputs, 0, Len(o), r.g)

\* --------------------------------------------- path.py: split_merge_path
\* The function is applied in one step; its loops are operators over the
\* record of the locals they change.

\* dot.edge(src, dst): no label
PathEdge(src, dst) == [src |-> src, dst |-> dst, label |-> <<>>]

\* path.py line 18-27: the inner loop for output out over the locals
\* st = [flow_matrix, available_inputs, remaining]
RECURSIVE PathAssignWhile(_, _)
PathAssignWhile(st, out) ==
    IF ~(st.remaining > 0 /\ st.available_inputs # <<>>) THEN st
    ELSE LET in_idx == Head(st.available_inputs)[1]
             in_flow == Head(st.available_inputs)[2]
         IN  IF in_flow <= st.remaining
             THEN PathAssignWhile(
                      [flow_matrix |-> MatrixSet(st.flow_matrix, in_idx, out, in_flow),
                       available_inputs |-> Tail(st.available_inputs),
                       remaining |-> st.remaining - in_flow], out)
             ELSE PathAssignWhile(
                      [flow_matrix |-> MatrixSet(st.flow_matrix, in_idx, out, st.remaining),
                       available_inputs |-> <<<<in_idx, in_flow - st.remaining>>>>
                                            \o Tail(st.available_inputs),
                       remaining |-> 0], out)

\* path.py line 15-27: the iterations of the loop for the outputs lo..hi-1,
\* in order: the first half is evaluated (first = first) before the second
RECURSIVE PathAssignFor(_, _, _, _)
PathAssignFor(st, o, lo, hi) ==
    IF hi <= lo THEN st
    ELSE IF hi = lo + 1
         THEN PathAssignWhile([st EXCEPT !.remaining = o[lo + 1]], lo)
         ELSE LET mid == (lo + hi) \div 2
                  first == PathAssignFor(st, o, lo, mid)
              IN  CASE first = first -> PathAssignFor(first, o, mid, hi)

\* path.py line 11-27
PathFlowMatrix(i, o) ==
    PathAssignFor([flow_matrix |-> <<>>, available_inputs |-> Enumerate(i),
                   remaining |-> 0], o, 0, Len(o)).flow_matrix

\* PathExpandLeaves using 2-way splitters only
RECURSIVE PathExpandLeavesTwoWay(_, _)
PathExpandLeavesTwoWay(st, n_outputs) ==
    IF ~(Len(st.leaves) < n_outputs) THEN st
    ELSE LET node_to_split == Head(st.leaves)
             popped == Tail(st.leaves)
             splitter_id == NodeId("S", st.g.counter)
             grown == [nodes |-> Append(st.g.nodes, splitter_id),
                       edges |-> Append(st.g.edges, PathEdge(node_to_split, splitter_id)),
                       counter |-> st.g.counter + 1]
         IN  PathExpandLeavesTwoWay(
                 [leaves |-> popped \o <<splitter_id, splitter_id>>,
                  g |-> grown], n_outputs)

\* path.py line 62-84: expand the first leaf until there are n_outputs leaves;
\* st = [leaves, g], g the graph so far, [nodes, edges, counter]
RECURSIVE PathExpandLeaves(_, _)
PathExpandLeaves(st, n_outputs) ==
    IF ~(Len(st.leaves) < n_outputs) THEN st
    ELSE LET node_to_split == Head(st.leaves)
             popped == Tail(st.leaves)
             remaining_needed == n_outputs - Len(popped)
             splitter_id == NodeId("S", st.g.counter)
             grown == [nodes |-> Append(st.g.nodes, splitter_id),
                       edges |-> Append(st.g.edges, PathEdge(node_to_split, splitter_id)),
                       counter |-> st.g.counter + 1]
         IN  IF remaining_needed >= 2
             THEN PathExpandLeaves(
                      [leaves |-> popped \o <<splitter_id, splitter_id, splitter_id>>,
                       g |-> grown], n_outputs)
             ELSE PathExpandLeaves(
                      [leaves |-> popped \o <<splitter_id, splitter_id>>,
                       g |-> grown], n_outputs)

\* path.py line 45-91: [result |-> {dest_id: node_id}, g |-> the graph]
PathBuildSplitTree(source_id, flows_dict, g) ==
    IF Len(flows_dict) = 1
    THEN [result |-> <<<<DictKeys(flows_dict)[1], source_id>>>>, g |-> g]
    ELSE LET destinations == SortedDesc(flows_dict, SplitKeyLess)
             r == PathExpandLeaves([leaves |-> <<source_id>>, g |-> g],
                                   Len(destinations))
         IN  [result |-> DictUpdate(<<>>, [k \in 1..Len(destinations) |->
                                             <<destinations[k][1], r.leaves[k]>>]),
              g |-> r.g]

\* path.py line 109-139: merge the first streams until one is left;
\* st = [streams, g]
RECURSIVE PathMergeStreams(_)
PathMergeStreams(st) ==
    IF ~(Len(st.streams) > 1) THEN st
    ELSE LET k == IF Len(st.streams) >= 3 THEN 3 ELSE 2
             merger_id == NodeId("M", st.g.counter)
             to_merge == SubSeq(st.streams, 1, k)
             merge_flow == SumSeq(DictValues(to_merge))
         IN  PathMergeStreams(
                 [streams |-> Append(SubSeq(st.streams, k + 1, Len(st.streams)),
                                     <<merger_id, merge_flow>>),
                  g |-> [nodes |-> Append(st.g.nodes, merger_id),
                         edges |-> st.g.edges
                                   \o [j \in 1..k |-> PathEdge(to_merge[j][1], merger_id)],
                         counter |-> st.g.counter + 1]])

\* path.py line 93-139: [node |-> the merged node, g |-> the graph]
PathBuildMergeTree(flows_dict, g) ==
    IF Len(flows_dict) = 1 THEN [node |-> DictKeys(flows_dict)[1], g |-> g]
    ELSE LET r == PathMergeStreams([streams |-> SortedDesc(flows_dict, MergeKeyLess),
                                    g |-> g])
         IN  [node |-> r.streams[1][1], g |-> r.g]

\* path.py line 142-144: the split trees of the matrix rows lo+1..hi, in order;
\* st = [input_outputs, g]
RECURSIVE PathSplitTrees(_, _, _, _)
PathSplitTrees(st, matrix, lo, hi) ==
    IF hi <= lo THEN st
    ELSE IF hi = lo + 1
         THEN LET r == PathBuildSplitTree(NodeId("I", matrix[hi][1]), matrix[hi][2], st.g)
              IN  [input_outputs |-> DictSet(st.input_outputs, matrix[hi][1], r.result),
                   g |-> r.g]
         ELSE LET mid == (lo + hi) \div 2
                  first == PathSplitTrees(st, matrix, lo, mid)
              IN  CASE first = first -> PathSplitTrees(first, matrix, mid, hi)

\* path.py line 149-153: sources[source_node] = out_flows[out_idx]
RECURSIVE PathCollectSources(_, _, _, _)
PathCollectSources(acc, matrix, io, out) ==
    IF matrix = <<>> THEN acc
    ELSE LET in_idx == matrix[1][1]
             out_flows == matrix[1][2]
         IN  PathCollectSources(
                 IF DictHas(out_flows, out)
                 THEN DictSet(acc, DictGet(DictGet(io, in_idx), out),
                              DictGet(out_flows, out))
                 ELSE acc,
                 Tail(matrix), io, out)

\* path.py line 149-157: one iteration of the loop over the outputs
PathWireOutput(matrix, io, out, g) ==
    LET srcs == PathCollectSources(<<>>, matrix, io, out)
        r == PathBuildMergeTree(srcs, g)
    IN  IF srcs # <<>>
        THEN [r.g EXCEPT !.edges = Append(r.g.edges, PathEdge(r.node, NodeId("O", out)))]
        ELSE g

\* path.py line 147-157: the iterations of the loop for the outputs lo..hi-1,
\* in order, the first half before the second
RECURSIVE PathMergeTrees(_, _, _, _, _)
PathMergeTrees(matrix, io, lo, hi, g) ==
    IF hi <= lo THEN g
    ELSE IF hi = lo + 1 THEN PathWireOutput(matrix, io, lo, g)
    ELSE LET mid == (lo + hi) \div 2
             first == PathMergeTrees(matrix, io, lo, mid, g)
         IN  CASE first = first -> PathMergeTrees(matrix, io, mid, hi, first)

\* path.py line 10-159, for sum(i) = sum(o): the graph returned
PathGraph(i, o) ==
    LET matrix == PathFlowMatrix(i, o)
        g0 == [nodes |-> [k \in 1..Len(i) |-> NodeId("I", k - 1)]
                         \o [k \in 1..Len(o) |-> NodeId("O", k - 1)],
               edges |-> <<>>,
               counter |-> 0]
        r == PathSplitTrees([input_outputs |-> <<>>, g |-> g0], matrix, 0, Len(matrix))
    IN  PathMergeTrees(matrix, r.input_outputs, 0, Len(o), r.g)

\* path.py line 4-159 in one step
SplitMergePath(c) ==
    /\ pc[c] = "start"
    /\ fn[c] = "split_merge_path"
    /\ IF SumSeq(inputs[c]) # SumSeq(outputs[c])
       THEN /\ error' = Upd(error, c, <<StrInt(SumSeq(inputs[c])),
                                        StrInt(SumSeq(outputs[c]))>>)
            /\ pc' = Upd(pc, c, "raised")
            /\ UNCHANGED <<flow_matrix, nodes, edges>>
       ELSE /\ flow_matrix' = Upd(flow_matrix, c, PathFlowMatrix(inputs[c], outputs[c]))
            /\ nodes' = Upd(nodes, c, PathGraph(inputs[c], outputs[c]).nodes)
            /\ edges' = Upd(edges, c, PathGraph(inputs[c], outputs[c]).edges)
            /\ pc' = Upd(pc, c, "returned")
            /\ UNCHANGED error
    /\ UNCHANGED <<args, available_inputs, remaining, out_idx, device_counter,
                   split_vars, merge_vars>>

\* ------------------------------------------- factory.py: routing a material
\* The factory's rates are integers here. Source k is the balancer's I<k-1>,
\* sink k its O<k-1> (factory.py line 852-856).

\* int(a / b) for integers a >= 0 and b > 0
IntQuotient(a, b) == a \div b

\* factory.py line 819, 825: flow * target_total / source_total divides by zero
DividesByZero(flows) == Len(flows) >= 2 /\ SumSeq(flows) = 0

\* _compute_integer_flows with the last flow allocated like the others
ComputeIntegerFlowsAllProportional(flows, target_total) ==
    [i \in 1..Len(flows) |-> IntQuotient(flows[i] * target_total, SumSeq(flows))]

\* factory.py line 799-831: one integer per flow, the last flow takes what the
\* others leave; no flow, no integer
ComputeIntegerFlows(flows, target_total) ==
    LET source_total == SumSeq(flows)
        allocated == [i \in 1..(Len(flows) - 1) |->
                         IntQuotient(flows[i] * target_total, source_total)]
    IN  [i \in 1..Len(flows) |->
            IF i = Len(flows) THEN target_total - SumSeq(allocated)
            ELSE allocated[i]]

\* Python's min
Min(a, b) == IF a < b THEN a ELSE b

\* factory.py line 957: min(int(sum(source_flows)), int(sum(sink_flows)))
TargetTotal(c) == Min(SumSeq(source_flows[c]), SumSeq(sink_flows[c]))

\* factory.py line 1006-1008: not enough material, a warning and nothing else
RouteInsufficient(c) ==
    /\ pc[c] = "route"
    /\ SumSeq(source_flows[c]) < SumSeq(sink_flows[c])
    /\ pc' = Upd(pc, c, "warned")
    /\ UNCHANGED <<args, error, assign_vars, out_idx, graph_vars, split_vars,
                   merge_vars>>

\* factory.py line 1010-1011, 767-796: one source, one sink, one edge
HandleDirectConnection(c) ==
    /\ pc[c] = "route"
    /\ ~(SumSeq(source_flows[c]) < SumSeq(sink_flows[c]))
    /\ Len(source_flows[c]) = 1 /\ Len(sink_flows[c]) = 1
    /\ edges' = Upd(edges, c, <<Edge(NodeId("I", 0), NodeId("O", 0), sink_flows[c][1])>>)
    /\ pc' = Upd(pc, c, "routed")
    /\ UNCHANGED <<args, error, assign_vars, out_idx, nodes, device_counter,
                   split_vars, merge_vars>>

\* factory.py line 1012-1019, 954-960: integer flows, then design_balancer
\* is entered with them
CreateMaterialBalancer(c) ==
    /\ pc[c] = "route"
    /\ ~(SumSeq(source_flows[c]) < SumSeq(sink_flows[c]))
    /\ ~(Len(source_flows[c]) = 1 /\ Len(sink_flows[c]) = 1)
    /\ IF DividesByZero(source_flows[c]) \/ DividesByZero(sink_flows[c])
       THEN /\ pc' = Upd(pc, c, "zero_division")
            /\ UNCHANGED <<fn, inputs, outputs>>
       ELSE /\ inputs' = Upd(inputs, c, ComputeIntegerFlows(source_flows[c], TargetTotal(c)))
            /\ outputs' = Upd(outputs, c, ComputeIntegerFlows(sink_flows[c], TargetTotal(c)))
            /\ fn' = Upd(fn, c, "design_balancer")
            /\ pc' = Upd(pc, c, "start")
    /\ UNCHANGED <<source_flows, sink_flows, error, assign_vars, out_idx,
                   graph_vars, split_vars, merge_vars>>

\* factory.py line 962-969, 1020: design_balancer has returned to the
\* factory, which copies the graph
CopyBalancer(c) ==
    /\ pc[c] = "returned"
    /\ source_flows[c] # <<>>
    /\ fn' = Upd(fn, c, "_route_single_material")
    /\ pc' = Upd(pc, c, "routed")
    /\ UNCHANGED <<inputs, outputs, source_flows, sink_flows, error, assign_vars,
                   out_idx, graph_vars, split_vars, merge_vars>>

\* ------------------------------------------------------ test_path.py helpers

\* test_path.py line 8-12: the number of distinct ids of a kind ("S" or "M")
\* that occur in the graph's source
CountDevices(c, kind) ==
    Cardinality({n \in {nodes[c][k] : k \in 1..Len(nodes[c])}
                       \cup {edges[c][k].src : k \in 1..Len(edges[c])}
                       \cup {edges[c][k].dst : k \in 1..Len(edges[c])} :
                    n.kind = kind})

\* ------------------------------------------------------------ specifications

\* the lists of non-negative flows of length <= maxLen and total <= maxTotal
FlowLists(maxLen, maxTotal) ==
    {s \in UNION {[1..n -> 0..maxTotal] : n \in 0..maxLen} : SumSeq(s) <= maxTotal}

\* every pair of generic lists, the totals equal or not
GenericArgs(maxLen, maxTotal) ==
    FlowLists(maxLen, maxTotal) \X FlowLists(maxLen, maxTotal)

\* test_path.py line 70 and 86: one input to n equal outputs, and the mirror
FanOutArgs(n) == <<<<n * FanFlow>>, Repeat(FanFlow, n)>>
FanInArgs(n) == <<Repeat(FanFlow, n), <<n * FanFlow>>>>
FanCounts == FanStart..(FanStop - 1)

\* test_path.py line 54
LargeArgs == <<Repeat(LargeIn, LargeInCount), Repeat(LargeOut, LargeOutCount)>>

\* the argument lists of the tests of test_path.py
TestArgs ==
    {FanOutArgs(n) : n \in FanCounts} \cup {FanInArgs(n) : n \in FanCounts}
    \cup {LargeArgs,
          <<<<100>>, <<40, 30, 30>>>>,
          <<<<50, 30, 20>>, <<100>>>>,
          <<<<120, 60>>, <<90, 90>>>>,
          <<<<90>>, <<30, 30, 30>>>>,
          <<<<100>>, <<90>>>>,
          <<<<100>>, <<100>>>>,
          <<<<150, 150>>, <<60, 60, 60, 60, 60>>>>}

Functions == {"design_balancer", "split_merge_path"}

\* the locals of a frame before its first statement
FreshFrames ==
    /\ error = [c \in Calls |-> <<>>]
    /\ flow_matrix = [c \in Calls |-> <<>>]
    /\ available_inputs = [c \in Calls |-> <<>>]
    /\ out_idx = [c \in Calls |-> 0]
    /\ remaining = [c \in Calls |-> 0]
    /\ nodes = [c \in Calls |-> <<>>]
    /\ edges = [c \in Calls |-> <<>>]
    /\ device_counter = [c \in Calls |-> 0]
    /\ split_pos = [c \in Calls |-> 0]
    /\ roots = [c \in Calls |-> <<>>]
    /\ dest_sources = [c \in Calls |-> <<>>]
    /\ input_outputs = [c \in Calls |-> <<>>]
    /\ sources = [c \in Calls |-> <<>>]
    /\ streams = [c \in Calls |-> <<>>]

\* the call is made directly, not by the factory
NoCaller ==
    /\ source_flows = [c \in Calls |-> <<>>]
    /\ sink_flows = [c \in Calls |-> <<>>]

\* one invocation, of either function, in frame 1; frame 2 is never entered
InitCall ==
    /\ \E f \in Functions, a \in GenericArgs(MaxLen, MaxTotal) \cup TestArgs :
          /\ fn = [c \in Calls |-> IF c = 1 THEN f ELSE "none"]
          /\ inputs = [c \in Calls |-> IF c = 1 THEN a[1] ELSE <<>>]
          /\ outputs = [c \in Calls |-> IF c = 1 THEN a[2] ELSE <<>>]
    /\ pc = [c \in Calls |-> IF c = 1 THEN "start" ELSE "idle"]
    /\ NoCaller
    /\ FreshFrames

\* the non-empty lists of rates >= lowest, of length <= maxLen and total
\* <= maxTotal
RateLists(maxLen, maxTotal, lowest) ==
    {s \in UNION {[1..n -> lowest..maxTotal] : n \in 1..maxLen} : SumSeq(s) <= maxTotal}

\* the factory routes one material in frame 1: the sinks are recipe inputs,
\* requested outputs and byproducts, all positive (factory.py line 590, 676,
\* 709); a source may be a user input of rate 0 (line 454)
InitRoute ==
    /\ source_flows \in {[c \in Calls |-> IF c = 1 THEN s ELSE <<>>] :
                            s \in RateLists(MaxRateLen, MaxRateTotal, 0)}
    /\ sink_flows \in {[c \in Calls |-> IF c = 1 THEN s ELSE <<>>] :
                          s \in RateLists(MaxRateLen, MaxRateTotal, 1)}
    /\ fn = [c \in Calls |-> IF c = 1 THEN "_route_single_material" ELSE "none"]
    /\ inputs = [c \in Calls |-> <<>>]
    /\ outputs = [c \in Calls |-> <<>>]
    /\ pc = [c \in Calls |-> IF c = 1 THEN "route" ELSE "idle"]
    /\ FreshFrames

\* a direct call of either function, or a call made by the factory
Init == InitCall \/ InitRoute

\* two invocations of design_balancer on identical arguments, their
\* statements interleaved in any order (one after the other included)
InitTwoRuns ==
    /\ \E a \in GenericArgs(MaxLenTwo, MaxTotalTwo)
                \cup {<<<<100>>, <<40, 30, 30>>>>, <<<<50, 30, 20>>, <<100>>>>} :
          /\ inputs = [c \in Calls |-> a[1]]
          /\ outputs = [c \in Calls |-> a[2]]
    /\ fn = [c \in Calls |-> "design_balancer"]
    /\ pc = [c \in Calls |-> "start"]
    /\ NoCaller
    /\ FreshFrames

\* the calls that run next to the call under observation
ConcurrentPeers ==
    {<<<<120, 60>>, <<90, 90>>>>, <<<<100>>, <<40, 30, 30>>>>, <<<<50, 30, 20>>, <<100>>>>}

\* two invocations of design_balancer, each on arguments of its own, their
\* statements interleaved in any order
InitConcurrent ==
    /\ \E a \in GenericArgs(MaxLenTwo, MaxTotalTwo) \cup ConcurrentPeers,
          b \in ConcurrentPeers :
          /\ inputs = [c \in Calls |-> IF c = 1 THEN a[1] ELSE b[1]]
          /\ outputs = [c \in Calls |-> IF c = 1 THEN a[2] ELSE b[2]]
    /\ fn = [c \in Calls |-> "design_balancer"]
    /\ pc = [c \in Calls |-> "start"]
    /\ NoCaller
    /\ FreshFrames

Step(c) ==
    \/ RaiseInfeasible(c)
    \/ StartAssignment(c)
    \/ NextOutput(c)
    \/ AssignFull(c)
    \/ AssignPartial(c)
    \/ OutputAssigned(c)
    \/ AssignmentDone(c)
    \/ CreateGraph(c)
    \/ SplitTreeSingle(c)
    \/ SplitTreeBegin(c)
    \/ ThreeWaySplit(c)
    \/ TwoWaySplit(c)
    \/ SplitTreeEnd(c)
    \/ SplitTreesDone(c)
    \/ NoSource(c)
    \/ DirectConnection(c)
    \/ MergeTreeBegin(c)
    \/ ThreeWayMerge(c)
    \/ TwoWayMerge(c)
    \/ MergeTreeEnd(c)
    \/ ReturnGraph(c)

\* factory.py line 972-1024
Route(c) ==
    \/ RouteInsufficient(c)
    \/ HandleDirectConnection(c)
    \/ CreateMaterialBalancer(c)
    \/ CopyBalancer(c)

Next == \E c \in Calls : Step(c) \/ SplitMergePath(c) \/ Route(c)

\* design_balancer alone: the interleaved runs never call split_merge_path
NextTwoRuns == \E c \in Calls : Step(c)

Spec == Init /\ [][Next]_vars

SpecTwoRuns == InitTwoRuns /\ [][NextTwoRuns]_vars

SpecConcurrent == InitConcurrent /\ [][NextTwoRuns]_vars

\* a call that has a next statement executes it: the interpreter runs the
\* body of design_balancer to its return or its raise without being suspended
\* for ever
RunsToCompletion == \A c \in Calls : WF_vars(Step(c))

\* one call of design_balancer in frame 1, left to run to its end
InitOneRun ==
    /\ \E a \in GenericArgs(MaxLenRun, MaxTotalRun) \cup TestArgs :
          /\ inputs = [c \in Calls |-> IF c = 1 THEN a[1] ELSE <<>>]
          /\ outputs = [c \in Calls |-> IF c = 1 THEN a[2] ELSE <<>>]
    /\ fn = [c \in Calls |-> IF c = 1 THEN "design_balancer" ELSE "none"]
    /\ pc = [c \in Calls |-> IF c = 1 THEN "start" ELSE "idle"]
    /\ NoCaller
    /\ FreshFrames

SpecOneRun == InitOneRun /\ [][NextTwoRuns]_vars /\ RunsToCompletion

\* ------------------------------------------------------------------ claims

\* the frames that run design_balancer
Balancers == {c \in Calls : fn[c] = "design_balancer"}

\* sum(inputs) == sum(outputs)
Feasible(c) == SumSeq(inputs[c]) = SumSeq(outputs[c])

\* the sum of the flow labels of a list of edges
RECURSIVE LabelSum(_)
LabelSum(es) == IF es = <<>> THEN 0 ELSE IntStr(es[1].label) + LabelSum(Tail(es))

EdgesFrom(c, node) == LET from(e) == e.src = node IN SelectSeq(edges[c], from)
EdgesInto(c, node) == LET into(e) == e.dst = node IN SelectSeq(edges[c], into)

\* the device nodes of a kind ("S" or "M") created so far, in order
DevicesOf(c, kind) == LET is(n) == n.kind = kind IN SelectSeq(nodes[c], is)
Devices(c) == LET is(n) == n.kind \in {"S", "M"} IN SelectSeq(nodes[c], is)

\* the sum of row in_idx of the matrix, 0 for a row never written
RowSum(c, in_idx) ==
    IF DictHas(flow_matrix[c], in_idx)
    THEN SumSeq(DictValues(DictGet(flow_matrix[c], in_idx)))
    ELSE 0

\* the entry (in_idx, out) of the matrix, 0 for an entry never written
Entry(c, in_idx, out) ==
    IF DictHas(flow_matrix[c], in_idx) /\ DictHas(DictGet(flow_matrix[c], in_idx), out)
    THEN DictGet(DictGet(flow_matrix[c], in_idx), out)
    ELSE 0

\* the sum of column out of the matrix
ColSum(c, out) == SumSeq([k \in 1..Len(inputs[c]) |-> Entry(c, k - 1, out)])

\* phase 1 of frame c is over
Assigned(c) == pc[c] \in {"graph", "split_for", "split_while", "merge_for",
                          "merge_while", "returned"}

\* C1: a call of design_balancer whose totals differ can only raise the
\* ValueError, which names both totals; it never gets past the check, and no
\* node, edge or matrix entry exists at any point of such a call.
C1_InfeasibleFailsFast ==
    \A c \in Balancers :
        ~Feasible(c) =>
            /\ pc[c] \in {"start", "raised"}
            /\ pc[c] = "start" => ENABLED RaiseInfeasible(c)
            /\ pc[c] = "raised" =>
                  /\ IntStr(error[c][1]) = SumSeq(inputs[c])
                  /\ IntStr(error[c][2]) = SumSeq(outputs[c])
            /\ nodes[c] = <<>>
            /\ edges[c] = <<>>
            /\ flow_matrix[c] = <<>>

\* a call with unequal totals has raised
C1_Witness ==
    \E c \in Balancers :
        /\ pc[c] = "raised"
        /\ inputs[c] = <<100>>
        /\ outputs[c] = <<90>>
        /\ error[c] = <<StrInt(100), StrInt(90)>>

\* C2: in the graph a valid call returns, the labels of the edges leaving
\* I_i sum to inputs[i] and the labels of the edges entering O_j sum to
\* outputs[j], for every i and j.
C2_EndpointFlows ==
    \A c \in Balancers :
        pc[c] = "returned" =>
            /\ \A i \in 1..Len(inputs[c]) :
                  LabelSum(EdgesFrom(c, NodeId("I", i - 1))) = inputs[c][i]
            /\ \A j \in 1..Len(outputs[c]) :
                  LabelSum(EdgesInto(c, NodeId("O", j - 1))) = outputs[c][j]

\* a returned graph with a split tree and a merge tree
C2_Witness ==
    \E c \in Balancers :
        /\ pc[c] = "returned"
        /\ inputs[c] = <<120, 60>>
        /\ outputs[c] = <<90, 90>>
        /\ Len(DevicesOf(c, "S")) = 1
        /\ Len(DevicesOf(c, "M")) = 1
        /\ LabelSum(EdgesFrom(c, NodeId("I", 0))) = 120

\* C3: once the assignment phase of a valid call is over, every row i of the
\* matrix sums to inputs[i] and every column j sums to outputs[j].
C3_MatrixSums ==
    \A c \in Balancers :
        Assigned(c) =>
            /\ \A i \in 1..Len(inputs[c]) : RowSum(c, i - 1) = inputs[c][i]
            /\ \A j \in 1..Len(outputs[c]) : ColSum(c, j - 1) = outputs[c][j]

\* a finished assignment in which an input is used in full and another in part
C3_Witness ==
    \E c \in Balancers :
        /\ pc[c] = "graph"
        /\ inputs[c] = <<1, 3>>
        /\ outputs[c] = <<2, 2>>
        /\ flow_matrix[c] = <<<<0, <<<<0, 1>>>>>>, <<1, <<<<0, 1>>, <<1, 2>>>>>>>>

\* math.ceil(a / b) for a >= 0, b > 0
CeilDiv(a, b) == (a + b - 1) \div b

\* the devices a tree over d destinations (or sources) needs: ceil((d-1)/2),
\* none for d <= 1
NeededDevices(d) == IF d <= 1 THEN 0 ELSE CeilDiv(d - 1, 2)

\* the lists of n non-negative integers that sum to total
Compositions(n, total) == {s \in [1..n -> 0..total] : SumSeq(s) = total}

\* the matrices (lists of rows) whose row sums are ins and column sums outs
AltMatrices(ins, outs) ==
    {m \in [1..Len(ins) -> UNION {Compositions(Len(outs), ins[i]) : i \in 1..Len(ins)}] :
        /\ \A i \in 1..Len(ins) : SumSeq(m[i]) = ins[i]
        /\ \A j \in 1..Len(outs) : SumSeq([i \in 1..Len(ins) |-> m[i][j]]) = outs[j]}

\* the devices a network built from matrix m needs
MatrixCost(m, ins, outs) ==
    SumSeq([i \in 1..Len(ins) |->
              NeededDevices(Cardinality({j \in 1..Len(outs) : m[i][j] > 0}))])
    + SumSeq([j \in 1..Len(outs) |->
              NeededDevices(Cardinality({i \in 1..Len(ins) : m[i][j] > 0}))])

\* every magnitude of the call is positive
AllPositive(c) ==
    /\ \A i \in 1..Len(inputs[c]) : inputs[c][i] > 0
    /\ \A j \in 1..Len(outputs[c]) : outputs[c][j] > 0

\* C4: the network design_balancer returns is minimal: it has no more
\* devices than any network built from a matrix with the same row and column
\* sums needs (stated for the calls with positive magnitudes and a total of
\* at most MaxTotal).
C4_MinimalNetwork ==
    \A c \in Balancers :
        (pc[c] = "returned" /\ AllPositive(c) /\ SumSeq(inputs[c]) <= MaxTotal) =>
            \A m \in AltMatrices(inputs[c], outputs[c]) :
                Len(Devices(c)) <= MatrixCost(m, inputs[c], outputs[c])

\* the fan-out call of the test with n outputs
IsFanOut(c, n) == inputs[c] = FanOutArgs(n)[1] /\ outputs[c] = FanOutArgs(n)[2]
IsFanIn(c, n) == inputs[c] = FanInArgs(n)[1] /\ outputs[c] = FanInArgs(n)[2]

\* C5: for n in 2..11, one input of 30*n fanned out to n outputs of 30
\* yields exactly ceil((n-1)/2) splitters and no merger, from design_balancer
\* and, as the test counts them, from split_merge_path.
C5_FanOutCounts ==
    \A c \in Calls : \A n \in FanCounts :
        (pc[c] = "returned" /\ IsFanOut(c, n)) =>
            /\ CountDevices(c, "S") = CeilDiv(n - 1, 2)
            /\ CountDevices(c, "M") = 0
            /\ Len(DevicesOf(c, "S")) = CeilDiv(n - 1, 2)
            /\ Len(DevicesOf(c, "M")) = 0

\* design_balancer has returned the fan-out to 11 outputs, with 5 splitters
C5_Witness ==
    \E c \in Balancers :
        /\ pc[c] = "returned"
        /\ IsFanOut(c, FanStop - 1)
        /\ Len(DevicesOf(c, "S")) = 5

\* C6: for n in 2..11, n inputs of 30 merged into one output of 30*n yield
\* exactly ceil((n-1)/2) mergers and no splitter, from design_balancer and,
\* as the test counts them, from split_merge_path.
C6_FanInCounts ==
    \A c \in Calls : \A n \in FanCounts :
        (pc[c] = "returned" /\ IsFanIn(c, n)) =>
            /\ CountDevices(c, "M") = CeilDiv(n - 1, 2)
            /\ CountDevices(c, "S") = 0
            /\ Len(DevicesOf(c, "M")) = CeilDiv(n - 1, 2)
            /\ Len(DevicesOf(c, "S")) = 0

\* design_balancer has returned the fan-in of 11 inputs, with 5 mergers
C6_Witness ==
    \E c \in Balancers :
        /\ pc[c] = "returned"
        /\ IsFanIn(c, FanStop - 1)
        /\ Len(DevicesOf(c, "M")) = 5

IsLarge(c) == inputs[c] = LargeArgs[1] /\ outputs[c] = LargeArgs[2]

\* C7: [480, 480, 480] -> [45] * 32 yields exactly 16 splitters and 2
\* mergers, from design_balancer and, as the test counts them, from
\* split_merge_path; in design_balancer's graph the labels of the edges into
\* each of the 32 outputs total 45.
C7_LargeExample ==
    \A c \in Calls :
        (pc[c] = "returned" /\ IsLarge(c)) =>
            /\ CountDevices(c, "S") = LargeSplitters
            /\ CountDevices(c, "M") = LargeMergers
            /\ Len(DevicesOf(c, "S")) = LargeSplitters
            /\ Len(DevicesOf(c, "M")) = LargeMergers
            /\ c \in Balancers =>
                  \A j \in 1..LargeOutCount :
                      LabelSum(EdgesInto(c, NodeId("O", j - 1))) = LargeOut

\* design_balancer has returned the large example; output 10 is fed by a merger
C7_Witness ==
    \E c \in Balancers :
        /\ pc[c] = "returned"
        /\ IsLarge(c)
        /\ \E k \in 1..Len(edges[c]) :
              /\ edges[c][k].dst = NodeId("O", 10)
              /\ edges[c][k].src.kind = "M"

\* the inputs that send positive flow to output out
Feeders(c, out) == {i \in 1..Len(inputs[c]) : Entry(c, i - 1, out) > 0}

\* the number of outputs row in_idx of the matrix has an entry for
Destinations(c, in_idx) ==
    IF DictHas(flow_matrix[c], in_idx) THEN Len(DictGet(flow_matrix[c], in_idx)) ELSE 0

\* C8: in a returned graph every output that receives flow from exactly one
\* input has exactly one edge into it, labelled with the assigned flow and
\* drawn from that input's node (single destination) or from a splitter
\* (several), never from a merger; [x] -> [x] yields no device and the one
\* edge I0 -> O0 labelled x.
C8_DirectShortcut ==
    \A c \in Balancers :
        pc[c] = "returned" =>
            /\ \A j \in 1..Len(outputs[c]) :
                  Cardinality(Feeders(c, j - 1)) = 1 =>
                      LET i == CHOOSE i \in Feeders(c, j - 1) : TRUE
                          into == EdgesInto(c, NodeId("O", j - 1))
                      IN  /\ Len(into) = 1
                          /\ into[1].src.kind # "M"
                          /\ IntStr(into[1].label) = Entry(c, i - 1, j - 1)
                          /\ IF Destinations(c, i - 1) = 1
                             THEN into[1].src = NodeId("I", i - 1)
                             ELSE into[1].src.kind = "S"
            /\ (Len(inputs[c]) = 1 /\ Len(outputs[c]) = 1 /\ inputs[c][1] >= 1) =>
                  /\ Devices(c) = <<>>
                  /\ edges[c] = <<Edge(NodeId("I", 0), NodeId("O", 0), inputs[c][1])>>

\* C9: two runs of design_balancer on identical arguments return graphs
\* with the same nodes and the same labelled edges, in the same order,
\* whatever the order in which their statements are executed.
C9_Deterministic ==
    \A c, d \in Balancers :
        (pc[c] = "returned" /\ pc[d] = "returned"
         /\ inputs[c] = inputs[d] /\ outputs[c] = outputs[d]) =>
            /\ nodes[c] = nodes[d]
            /\ edges[c] = edges[d]

\* both runs have returned a graph with a splitter and a merger
C9_Witness ==
    /\ \A c \in Calls : pc[c] = "returned"
    /\ inputs[1] = <<1, 1>>
    /\ outputs[1] = <<2>>
    /\ nodes[1] = nodes[2]
    /\ Len(DevicesOf(2, "M")) = 1

\* C10: the devices of one call, in the order of their creation, carry
\* strictly increasing numbers, all below the call's counter: no two devices
\* of a call, splitters or mergers, share a number.
C10_UniqueDeviceIds ==
    \A c \in Balancers :
        LET devs == Devices(c)
        IN  /\ \A p, q \in 1..Len(devs) : p < q => devs[p].num < devs[q].num
            /\ \A p \in 1..Len(devs) : devs[p].num < device_counter[CounterCell(c)]

\* a graph under construction with a splitter and a merger
C10_Witness ==
    \E c \in Balancers :
        /\ Len(DevicesOf(c, "S")) >= 1
        /\ Len(DevicesOf(c, "M")) >= 2


\* C11: of two design_balancer calls whose statements are interleaved in
\* any order, each returns exactly the graph it returns when it runs alone,
\* and in every state each call's devices are numbered 0, 1, 2, ... by a
\* counter that only the call itself advances.
C11_ConcurrentCallsIsolated ==
    \A c \in Balancers :
        /\ pc[c] = "returned" =>
              /\ nodes[c] = RunDesignBalancer(inputs[c], outputs[c]).nodes
              /\ edges[c] = RunDesignBalancer(inputs[c], outputs[c]).edges
        /\ \A p \in 1..Len(Devices(c)) : Devices(c)[p].num = p - 1
        /\ pc[c] \in {"split_for", "split_while", "merge_for", "merge_while", "returned"}
              => device_counter[CounterCell(c)] = Len(Devices(c))

\* both calls have returned, each a graph with devices, on different arguments
C11_Witness ==
    /\ \A c \in Calls : pc[c] = "returned"
    /\ inputs[1] = <<1, 1>> /\ outputs[1] = <<2>>
    /\ inputs[2] = <<120, 60>> /\ outputs[2] = <<90, 90>>
    /\ Devices(1) = <<NodeId("M", 0)>>
    /\ Devices(2) = <<NodeId("S", 0), NodeId("M", 1)>>


\* the calls whose graph exists: the Digraph of line 41 has been created
GraphBuilt(c) ==
    pc[c] \in {"split_for", "split_while", "merge_for", "merge_while", "returned"}

\* the number of dot.node calls made for id
NodeCount(c, id) == Cardinality({k \in 1..Len(nodes[c]) : nodes[c][k] = id})

\* C12: the graph of design_balancer holds exactly one node I<i> for every
\* index of inputs and one node O<j> for every index of outputs, whatever
\* their magnitude and whether or not an edge touches them, and no other
\* input or output node.
C12_EndpointNodes ==
    \A c \in Balancers :
        GraphBuilt(c) =>
            /\ \A i \in 1..Len(inputs[c]) : NodeCount(c, NodeId("I", i - 1)) = 1
            /\ \A j \in 1..Len(outputs[c]) : NodeCount(c, NodeId("O", j - 1)) = 1
            /\ Len(DevicesOf(c, "I")) = Len(inputs[c])
            /\ Len(DevicesOf(c, "O")) = Len(outputs[c])

\* a returned graph whose zero input I1 and zero output O1 have no edge
C12_Witness ==
    \E c \in Balancers :
        /\ pc[c] = "returned"
        /\ inputs[c] = <<1, 0>>
        /\ outputs[c] = <<1, 0>>
        /\ NodeCount(c, NodeId("I", 1)) = 1
        /\ NodeCount(c, NodeId("O", 1)) = 1
        /\ edges[c] = <<Edge(NodeId("I", 0), NodeId("O", 0), 1)>>

\* C13: in a returned graph every splitter has exactly one incoming edge
\* and two or three outgoing edges, and every merger has two or three
\* incoming edges and exactly one outgoing edge.
C13_DeviceDegrees ==
    \A c \in Balancers :
        pc[c] = "returned" =>
            /\ \A k \in 1..Len(DevicesOf(c, "S")) :
                  /\ Len(EdgesInto(c, DevicesOf(c, "S")[k])) = 1
                  /\ Len(EdgesFrom(c, DevicesOf(c, "S")[k])) \in {2, 3}
            /\ \A k \in 1..Len(DevicesOf(c, "M")) :
                  /\ Len(EdgesInto(c, DevicesOf(c, "M")[k])) \in {2, 3}
                  /\ Len(EdgesFrom(c, DevicesOf(c, "M")[k])) = 1

\* a returned graph with a three-way and a two-way splitter and with
\* three-way mergers: the large example
C13_Witness ==
    \E c \in Balancers :
        /\ pc[c] = "returned"
        /\ IsLarge(c)
        /\ \E k \in 1..Len(Devices(c)) :
              Devices(c)[k].kind = "S" /\ Len(EdgesFrom(c, Devices(c)[k])) = 2
        /\ \E k \in 1..Len(Devices(c)) :
              Devices(c)[k].kind = "S" /\ Len(EdgesFrom(c, Devices(c)[k])) = 3
        /\ \E k \in 1..Len(Devices(c)) :
              Devices(c)[k].kind = "M" /\ Len(EdgesInto(c, Devices(c)[k])) = 2

\* C14: flow is conserved at every device of a returned graph: the label
\* of a splitter's incoming edge is the sum of the labels of its outgoing
\* edges, and the sum of the labels of a merger's incoming edges is the
\* label of its outgoing edge.
C14_FlowConserved ==
    \A c \in Balancers :
        pc[c] = "returned" =>
            \A k \in 1..Len(Devices(c)) :
                LabelSum(EdgesInto(c, Devices(c)[k])) = LabelSum(EdgesFrom(c, Devices(c)[k]))

\* a returned graph where a splitter feeds a splitter and a merger
C14_Witness ==
    \E c \in Balancers :
        /\ pc[c] = "returned"
        /\ IsLarge(c)
        /\ \E k \in 1..Len(edges[c]) :
              edges[c][k].src.kind = "S" /\ edges[c][k].dst.kind = "S"
        /\ \E k \in 1..Len(edges[c]) :
              edges[c][k].src.kind = "S" /\ edges[c][k].dst.kind = "M"

\* C15: every entry the flow assignment records in the matrix is strictly
\* positive.
C15_PositiveEntries ==
    \A c \in Balancers : \A r \in 1..Len(flow_matrix[c]) :
        \A k \in 1..Len(flow_matrix[c][r][2]) : flow_matrix[c][r][2][k][2] > 0


\* the frames in which design_balancer runs for the factory
FactoryCalls == {c \in Balancers : source_flows[c] # <<>>}

\* C16: when the factory routes a material with at least as much supply as
\* demand through a balancer, design_balancer receives two lists of
\* non-negative integers, as long as the rates they come from and both
\* summing to min(sum(sources), sum(sinks)); it never raises the ValueError
\* of the totals, and _compute_integer_flows never divides by zero.
C16_FactoryFlowsFeasible ==
    /\ \A c \in FactoryCalls :
          /\ Len(inputs[c]) = Len(source_flows[c])
          /\ Len(outputs[c]) = Len(sink_flows[c])
          /\ \A i \in 1..Len(inputs[c]) : inputs[c][i] >= 0
          /\ \A j \in 1..Len(outputs[c]) : outputs[c][j] >= 0
          /\ SumSeq(inputs[c]) = TargetTotal(c)
          /\ SumSeq(outputs[c]) = TargetTotal(c)
          /\ pc[c] # "raised"
    /\ \A c \in Calls : pc[c] # "zero_division"

\* the factory has scaled the sources <<2, 2>> down to the demand of 3 and
\* design_balancer has returned the graph
C16_Witness ==
    \E c \in FactoryCalls :
        /\ pc[c] = "returned"
        /\ source_flows[c] = <<2, 2>>
        /\ sink_flows[c] = <<1, 2>>
        /\ inputs[c] = <<1, 2>>
        /\ outputs[c] = <<1, 2>>


\* the number of outputs input in_idx sends positive flow to
PositiveDestinations(c, in_idx) ==
    Cardinality({j \in 1..Len(outputs[c]) : Entry(c, in_idx, j - 1) > 0})

\* C17: design_balancer creates sum over the inputs of ceil((d_i - 1)/2)
\* splitters, d_i the number of outputs input i sends flow to, and sum over
\* the outputs of ceil((s_j - 1)/2) mergers, s_j the number of inputs that
\* contribute to output j; [120, 60] -> [90, 90] gives one of each and
\* [150, 150] -> [60] * 5 at most five devices.
C17_DeviceCountFormula ==
    \A c \in Balancers :
        pc[c] = "returned" =>
            /\ Len(DevicesOf(c, "S")) =
                  SumSeq([i \in 1..Len(inputs[c]) |->
                             NeededDevices(PositiveDestinations(c, i - 1))])
            /\ Len(DevicesOf(c, "M")) =
                  SumSeq([j \in 1..Len(outputs[c]) |->
                             NeededDevices(Cardinality(Feeders(c, j - 1)))])
            /\ (inputs[c] = <<120, 60>> /\ outputs[c] = <<90, 90>>) =>
                  Len(DevicesOf(c, "S")) = 1 /\ Len(DevicesOf(c, "M")) = 1
            /\ (inputs[c] = <<150, 150>> /\ outputs[c] = <<60, 60, 60, 60, 60>>) =>
                  Len(Devices(c)) <= 5

\* t[k + 1], for k up to kmax, is the set of the numbers of distinct
\* destinations that a tree of exactly k devices, each with one, two or
\* three branches, connects to one source (by symmetry, the numbers of
\* sources that k mergers bring to one destination)
RECURSIVE TreeSizeTable(_)
TreeSizeTable(kmax) ==
    IF kmax = 0 THEN <<{1}>>
    ELSE LET t == TreeSizeTable(kmax - 1)
             k == kmax
         IN  Append(t,
                 t[k]
                 \cup UNION {{a + b : a \in t[k1 + 1], b \in t[k - k1]} :
                                k1 \in 0..(k - 1)}
                 \cup UNION {UNION {{a + b + d : a \in t[k1 + 1], b \in t[k2 + 1],
                                                 d \in t[k - k1 - k2]} :
                                       k2 \in 0..(k - 1 - k1)} :
                                k1 \in 0..(k - 1)})

TreeSizes(k) == TreeSizeTable(k)[k + 1]

\* no tree of fewer than built devices connects n destinations
NoSmallerTree(n, built) == \A k \in 0..(built - 1) : n \notin TreeSizes(k)

\* C18: a split tree that build_split_tree builds for n destinations has no
\* more splitters than any tree of splitters with at most three outputs
\* each that connects one source to n destinations; likewise the mergers of
\* build_merge_tree for n sources. Checked on the graphs that consist of one
\* tree: one matrix row, or one output.
C18_TreeOptimal ==
    \A c \in Balancers :
        pc[c] = "returned" =>
            /\ Len(flow_matrix[c]) = 1 =>
                  NoSmallerTree(Len(flow_matrix[c][1][2]), Len(DevicesOf(c, "S")))
            /\ (Len(outputs[c]) = 1 /\ Len(flow_matrix[c]) >= 1) =>
                  NoSmallerTree(Len(flow_matrix[c]), Len(DevicesOf(c, "M")))

\* the fan-out to 11 outputs has returned with five splitters, and five
\* devices can connect 11 destinations
C18_Witness ==
    \E c \in Balancers :
        /\ pc[c] = "returned"
        /\ IsFanOut(c, FanStop - 1)
        /\ Len(flow_matrix[c]) = 1
        /\ Len(flow_matrix[c][1][2]) = FanStop - 1
        /\ Len(DevicesOf(c, "S")) = 5
        /\ (FanStop - 1) \in TreeSizes(5)

\* the number of cells written in the matrix
EntryCount(c) == SumSeq([r \in 1..Len(flow_matrix[c]) |-> Len(flow_matrix[c][r][2])])

\* the queue holds the inputs in index order, only the one at its front may
\* have a matrix row, and the rows belong to inputs before the rest of it
QueueInOrder(c) ==
    LET q == available_inputs[c]
    IN  /\ \A p1, p2 \in 1..Len(q) : p1 < p2 => q[p1][1] < q[p2][1]
        /\ \A p \in 2..Len(q) : ~DictHas(flow_matrix[c], q[p][1])
        /\ \A r \in 1..Len(flow_matrix[c]) : \A p \in 1..Len(q) :
              flow_matrix[c][r][1] <= q[p][1]

\* if (i, j) and (i2, j2) are entries and i < i2 then j <= j2
NonCrossing(c) ==
    \A r1, r2 \in 1..Len(flow_matrix[c]) :
        flow_matrix[c][r1][1] < flow_matrix[c][r2][1] =>
            \A k1 \in 1..Len(flow_matrix[c][r1][2]) :
                \A k2 \in 1..Len(flow_matrix[c][r2][2]) :
                    flow_matrix[c][r1][2][k1][1] <= flow_matrix[c][r2][2][k2][1]

\* C19: the flow assigner takes the inputs in index order: the queue stays
\* in index order with a partially used input at its front, ahead of every
\* input not yet touched; the matrix is non-crossing in every state; and
\* every assignment writes a cell that was not written before.
C19_NonCrossing ==
    /\ [](\A c \in Balancers :
             /\ NonCrossing(c)
             /\ pc[c] \in {"assign_for", "assign_while"} => QueueInOrder(c))
    /\ [][\A c \in Calls :
             (fn[c] = "design_balancer" /\ pc[c] = "assign_while"
              /\ available_inputs'[c] # available_inputs[c]) =>
                 EntryCount(c)' = EntryCount(c) + 1]_vars

\* input 1, used in part for output 0, waits at the front for output 1
C19_Witness ==
    \E c \in Balancers :
        /\ pc[c] = "assign_for"
        /\ inputs[c] = <<1, 3>>
        /\ outputs[c] = <<2, 2>>
        /\ out_idx[c] = 1
        /\ available_inputs[c] = <<<<1, 2>>>>
        /\ EntryCount(c) = 2

\* C20: the queue of inputs is not exhausted while an output has unmet
\* demand: whenever the inner loop ends the remaining demand is 0, and after
\* the last output every input left in the queue has flow 0.
C20_QueueSuffices ==
    \A c \in Balancers :
        /\ (pc[c] = "assign_while" /\ remaining[c] > 0) => available_inputs[c] # <<>>
        /\ (pc[c] = "assign_while" /\ ~AssignCond(c)) => remaining[c] = 0
        /\ pc[c] = "assign_for" => remaining[c] = 0
        /\ (pc[c] = "graph" \/ GraphBuilt(c)) =>
              \A p \in 1..Len(available_inputs[c]) : available_inputs[c][p][2] = 0

\* the loop of the last output has ended with the zero input 1 still queued
C20_Witness ==
    \E c \in Balancers :
        /\ pc[c] = "assign_while"
        /\ ~AssignCond(c)
        /\ inputs[c] = <<2, 0>>
        /\ outputs[c] = <<1, 1>>
        /\ out_idx[c] = 1
        /\ available_inputs[c] = <<<<1, 0>>>>


\* ------------------------------------------------ order of the split groups


\* the destinations of a finished split tree that its first splitter feeds:
\* the first splitter has the lowest id of the tree
FirstSplitterOf(tree) ==
    CHOOSE s \in {tree[k][2][1] : k \in 1..Len(tree)} :
        \A k \in 1..Len(tree) : s.num <= tree[k][2][1].num

FedByFirst(tree) ==
    {k \in 1..Len(tree) : tree[k][2][1] = FirstSplitterOf(tree)}

\* (flow, output index) of entry a is below that of entry b
BelowByFlowThenIndex(a, b) ==
    a[2][2] < b[2][2] \/ (a[2][2] = b[2][2] /\ a[1] < b[1])

\* C21: the first splitter created for an input with three or more
\* destinations feeds exactly the three destinations that are largest by
\* (flow, output index), ties going to the higher output index; and
\* design_balancer([120], [30, 30, 30, 30]) returns S0 feeding O3, O2, O1 and
\* the root S1 feeding O0 and S0, with S1 -> S0 labelled 90 and I0 -> S1
\* labelled 120
C21_SplitOrder ==
    \A c \in Balancers :
        /\ \A t \in 1..Len(input_outputs[c]) :
               LET tree == input_outputs[c][t][2]
               IN  Len(tree) >= 3 =>
                       /\ FirstSplitterOf(tree).kind = "S"
                       /\ Cardinality(FedByFirst(tree)) = 3
                       /\ \A k \in FedByFirst(tree) :
                              \A j \in (1..Len(tree)) \ FedByFirst(tree) :
                                  BelowByFlowThenIndex(tree[j], tree[k])
        /\ (pc[c] = "returned" /\ IsFanOut(c, 4)) =>
               /\ Len(edges[c]) = 6
               /\ {edges[c][k] : k \in 1..Len(edges[c])} =
                      { Edge(NodeId("S", 0), NodeId("O", 3), FanFlow),
                        Edge(NodeId("S", 0), NodeId("O", 2), FanFlow),
                        Edge(NodeId("S", 0), NodeId("O", 1), FanFlow),
                        Edge(NodeId("S", 1), NodeId("O", 0), FanFlow),
                        Edge(NodeId("S", 1), NodeId("S", 0), 3 * FanFlow),
                        Edge(NodeId("I", 0), NodeId("S", 1), 4 * FanFlow) }

\* the example call has returned: one tree of four destinations whose first
\* splitter is S0
C21_Witness ==
    /\ pc[1] = "returned" /\ fn[1] = "design_balancer" /\ IsFanOut(1, 4)
    /\ Len(input_outputs[1]) = 1
    /\ Len(input_outputs[1][1][2]) = 4
    /\ FirstSplitterOf(input_outputs[1][1][2]) = NodeId("S", 0)


\* ------------------------------------------------ order of the merge groups

\* C22: the streams of a merge tree are ordered by (flow, source index)
\* descending, so of two inputs with equal flow the higher-numbered one comes
\* first; for design_balancer([30]*n, [30*n]) with 3 <= n <= 11 the first
\* merger M0 is fed by I(n-1), I(n-2) and I(n-3)
C22_MergeOrder ==
    \A c \in Balancers :
        /\ pc[c] = "merge_while" =>
               \A j \in 1..Len(streams[c]) : \A k \in (j + 1)..Len(streams[c]) :
                   ( /\ streams[c][j][1].kind = "I"
                     /\ streams[c][k][1].kind = "I"
                     /\ streams[c][j][2] = streams[c][k][2] )
                   => streams[c][j][1].num > streams[c][k][1].num
        /\ \A n \in 3..(FanStop - 1) :
               (pc[c] = "returned" /\ IsFanIn(c, n)) =>
                   LET into == EdgesInto(c, NodeId("M", 0))
                   IN  {into[k].src : k \in 1..Len(into)} =
                           {NodeId("I", n - 1), NodeId("I", n - 2), NodeId("I", n - 3)}


\* ------------------------------------------------------- two-way devices

\* the input whose split tree holds splitter s of a returned graph
RECURSIVE SplitTreeInput(_, _)
SplitTreeInput(c, s) ==
    LET parent == EdgesInto(c, s)[1].src
    IN  IF parent.kind = "S" THEN SplitTreeInput(c, parent) ELSE parent

\* the output whose merge tree holds merger m of a returned graph
RECURSIVE MergeTreeOutput(_, _)
MergeTreeOutput(c, m) ==
    LET child == EdgesFrom(c, m)[1].dst
    IN  IF child.kind = "M" THEN MergeTreeOutput(c, child) ELSE child

SplitTreeDevices(c, in_idx) ==
    {nodes[c][k] : k \in {k \in 1..Len(nodes[c]) :
        /\ nodes[c][k].kind = "S"
        /\ SplitTreeInput(c, nodes[c][k]) = NodeId("I", in_idx)}}

MergeTreeDevices(c, out) ==
    {nodes[c][k] : k \in {k \in 1..Len(nodes[c]) :
        /\ nodes[c][k].kind = "M"
        /\ MergeTreeOutput(c, nodes[c][k]) = NodeId("O", out)}}

\* the number of inputs with a matrix entry for output out
Contributors(c, out) ==
    Cardinality({r \in 1..Len(flow_matrix[c]) : DictHas(flow_matrix[c][r][2], out)})

SplitWays(c, s) == Len(EdgesFrom(c, s))
MergeWays(c, m) == Len(EdgesInto(c, m))

\* C23: every split tree and every merge tree of a returned graph holds at
\* most one 2-way device; it exists exactly when the tree has an even number
\* of destinations (sources), it is the device of the tree created last and
\* the tree's root, and every other device of the tree is 3-way
C23_OneTwoWayDevice ==
    \A c \in Balancers :
        pc[c] = "returned" =>
            /\ \A i \in 1..Len(inputs[c]) :
                   LET devs == SplitTreeDevices(c, i - 1)
                       two == {s \in devs : SplitWays(c, s) = 2}
                       n == Destinations(c, i - 1)
                   IN  /\ Cardinality(two) <= 1
                       /\ \A s \in devs \ two : SplitWays(c, s) = 3
                       /\ n >= 2 => (two # {} <=> n % 2 = 0)
                       /\ n < 2 => devs = {}
                       /\ \A s \in two :
                              /\ \A t \in devs : t.num <= s.num
                              /\ EdgesInto(c, s)[1].src = NodeId("I", i - 1)
            /\ \A j \in 1..Len(outputs[c]) :
                   LET devs == MergeTreeDevices(c, j - 1)
                       two == {m \in devs : MergeWays(c, m) = 2}
                       n == Contributors(c, j - 1)
                   IN  /\ Cardinality(two) <= 1
                       /\ \A m \in devs \ two : MergeWays(c, m) = 3
                       /\ n >= 2 => (two # {} <=> n % 2 = 0)
                       /\ n < 2 => devs = {}
                       /\ \A m \in two :
                              /\ \A t \in devs : t.num <= m.num
                              /\ EdgesFrom(c, m)[1].dst = NodeId("O", j - 1)

\* the large example has returned: its first split tree has eleven
\* destinations and no 2-way splitter, its second has twelve and one 2-way
\* root, and a merge tree of two sources is a single 2-way merger
C23_Witness ==
    /\ pc[1] = "returned" /\ fn[1] = "design_balancer" /\ IsLarge(1)
    /\ Destinations(1, 0) = 11
    /\ Cardinality(SplitTreeDevices(1, 0)) = 5
    /\ \A s \in SplitTreeDevices(1, 0) : SplitWays(1, s) = 3
    /\ Destinations(1, 1) = 12
    /\ Cardinality({s \in SplitTreeDevices(1, 1) : SplitWays(1, s) = 2}) = 1
    /\ \E j \in 1..Len(outputs[1]) :
           /\ Contributors(1, j - 1) = 2
           /\ Cardinality(MergeTreeDevices(1, j - 1)) = 1


\* ---------------------------------------------------------- zero-flow legs

\* C24: a call whose totals agree does not fail, and in its returned graph
\* no edge is labelled 0 and no edge touches an input or an output of
\* magnitude 0
C24_ZeroLegsDropped ==
    \A c \in Balancers :
        /\ Feasible(c) => pc[c] # "raised"
        /\ pc[c] = "returned" =>
               /\ \A k \in 1..Len(edges[c]) : edges[c][k].label # StrInt(0)
               /\ \A i \in 1..Len(inputs[c]) :
                      inputs[c][i] = 0 => EdgesFrom(c, NodeId("I", i - 1)) = <<>>
               /\ \A j \in 1..Len(outputs[c]) :
                      outputs[c][j] = 0 => EdgesInto(c, NodeId("O", j - 1)) = <<>>


\* ------------------------------------------------------------ termination

\* one iteration of the loop of line 29 takes an element off the queue or
\* finishes the output
AssignmentProgress ==
    \A c \in Calls :
        (pc[c] = "assign_while" /\ pc'[c] = "assign_while") =>
            \/ Len(available_inputs'[c]) = Len(available_inputs[c]) - 1
            \/ (remaining[c] > 0 /\ remaining'[c] = 0)

\* one iteration of the loop of line 81 / 170 leaves fewer roots / streams
GroupingProgress ==
    \A c \in Calls :
        /\ (pc[c] = "split_while" /\ pc'[c] = "split_while") =>
               Len(roots'[c]) < Len(roots[c])
        /\ (pc[c] = "merge_while" /\ pc'[c] = "merge_while") =>
               Len(streams'[c]) < Len(streams[c])

\* a grouping loop always holds a root, and a tree of n leaves has taken
\* ceil((n - 1) / 2) rounds, one device each, and so at most n
GroupingRounds ==
    \A c \in Balancers :
        /\ pc[c] = "split_while" => Len(roots[c]) >= 1
        /\ pc[c] = "merge_while" => Len(streams[c]) >= 1
        /\ pc[c] = "returned" =>
               /\ \A i \in 1..Len(inputs[c]) :
                      Destinations(c, i - 1) >= 1 =>
                          /\ Cardinality(SplitTreeDevices(c, i - 1)) =
                                 CeilDiv(Destinations(c, i - 1) - 1, 2)
                          /\ Cardinality(SplitTreeDevices(c, i - 1)) <=
                                 Destinations(c, i - 1)
               /\ \A j \in 1..Len(outputs[c]) :
                      Contributors(c, j - 1) >= 1 =>
                          /\ Cardinality(MergeTreeDevices(c, j - 1)) =
                                 CeilDiv(Contributors(c, j - 1) - 1, 2)
                          /\ Cardinality(MergeTreeDevices(c, j - 1)) <=
                                 Contributors(c, j - 1)

\* C25: design_balancer terminates on every valid input, returning a graph:
\* every iteration of the assignment loop takes an element off the queue or
\* finishes an output, every iteration of a grouping loop leaves fewer roots,
\* and a tree of n destinations (sources) is finished with one root after
\* ceil((n - 1) / 2) rounds
C25_Terminates ==
    /\ \A c \in Calls :
           (fn[c] = "design_balancer" /\ pc[c] = "start" /\ Feasible(c))
               ~> (pc[c] = "returned")
    /\ [][AssignmentProgress /\ GroupingProgress]_vars
    /\ []GroupingRounds

\* the large example has returned after the six rounds of its second split
\* tree, a tree of twelve destinations
C25_Witness ==
    /\ pc[1] = "returned" /\ fn[1] = "design_balancer" /\ IsLarge(1)
    /\ Destinations(1, 1) = 12
    /\ Cardinality(SplitTreeDevices(1, 1)) = 6


\* ------------------------------------------- the two implementations agree

\* count_devices of test_path.py on a graph value [nodes, edges, counter]
DevicesIn(g, kind) ==
    Cardinality({n \in {g.nodes[k] : k \in 1..Len(g.nodes)}
                       \cup {g.edges[k].src : k \in 1..Len(g.edges)}
                       \cup {g.edges[k].dst : k \in 1..Len(g.edges)} :
                    n.kind = kind})

\* what the other implementation returns for the arguments of frame c
OtherMatrix(c) ==
    IF fn[c] = "split_merge_path"
    THEN RunAssignment(inputs[c], outputs[c]).flow_matrix
    ELSE PathFlowMatrix(inputs[c], outputs[c])

OtherGraph(c) ==
    IF fn[c] = "split_merge_path"
    THEN RunDesignBalancer(inputs[c], outputs[c])
    ELSE PathGraph(inputs[c], outputs[c])

\* C26: whenever split_merge_path or design_balancer has returned, the other
\* implementation computes the same assignment matrix on the same arguments
\* and creates the same number of splitters and the same number of mergers
C26_ImplementationsAgree ==
    \A c \in Calls :
        (pc[c] = "returned" /\ fn[c] \in Functions) =>
            /\ flow_matrix[c] = OtherMatrix(c)
            /\ CountDevices(c, "S") = DevicesIn(OtherGraph(c), "S")
            /\ CountDevices(c, "M") = DevicesIn(OtherGraph(c), "M")

\* split_merge_path has returned a graph for [120] -> [30, 30, 30, 30]: two
\* splitters, as in the graph of design_balancer, under another topology (its
\* root S0 is fed by I0, the root of design_balancer is S1)
C26_Witness ==
    /\ pc[1] = "returned" /\ fn[1] = "split_merge_path" /\ IsFanOut(1, 4)
    /\ CountDevices(1, "S") = 2
    /\ \E k \in 1..Len(edges[1]) :
           edges[1][k].src = NodeId("I", 0) /\ edges[1][k].dst = NodeId("S", 0)
    /\ \E k \in 1..Len(RunDesignBalancer(inputs[1], outputs[1]).edges) :
           LET e == RunDesignBalancer(inputs[1], outputs[1]).edges[k]
           IN  e.src = NodeId("I", 0) /\ e.dst = NodeId("S", 1)


\* ------------------------------------------------------ order of the ids

\* the numbers of the devices of a kind
DeviceNums(c, kind) ==
    {DevicesOf(c, kind)[k].num : k \in 1..Len(DevicesOf(c, kind))}

\* C27: in every state of a call no splitter is created after a merger; in
\* the returned graph with S splitters and M mergers the splitters carry
\* exactly the numbers 0..S-1 and the mergers exactly S..S+M-1, the splitters
\* of a tree with a lower input index carry lower numbers, and so do the
\* mergers of a tree with a lower output index
C27_IdOrder ==
    \A c \in Balancers :
        /\ \A p, q \in 1..Len(Devices(c)) :
               (p < q /\ Devices(c)[p].kind = "M") => Devices(c)[q].kind = "M"
        /\ pc[c] = "returned" =>
               LET S == Len(DevicesOf(c, "S"))
                   M == Len(DevicesOf(c, "M"))
               IN  /\ DeviceNums(c, "S") = 0..(S - 1)
                   /\ DeviceNums(c, "M") = S..(S + M - 1)
                   /\ \A p, q \in 1..S :
                          LET s == DevicesOf(c, "S")[p]
                              t == DevicesOf(c, "S")[q]
                          IN  SplitTreeInput(c, s).num < SplitTreeInput(c, t).num
                                  => s.num < t.num
                   /\ \A p, q \in 1..M :
                          LET m == DevicesOf(c, "M")[p]
                              n == DevicesOf(c, "M")[q]
                          IN  MergeTreeOutput(c, m).num < MergeTreeOutput(c, n).num
                                  => m.num < n.num

\* the large example has returned: splitters 0..15 in three trees, mergers
\* 16 and 17 for two outputs
C27_Witness ==
    /\ pc[1] = "returned" /\ fn[1] = "design_balancer" /\ IsLarge(1)
    /\ DeviceNums(1, "S") = 0..15
    /\ DeviceNums(1, "M") = {16, 17}
    /\ SplitTreeInput(1, NodeId("S", 4)) = NodeId("I", 0)
    /\ SplitTreeInput(1, NodeId("S", 5)) = NodeId("I", 1)
    /\ MergeTreeOutput(1, NodeId("M", 16)).num < MergeTreeOutput(1, NodeId("M", 17)).num


\* ------------------------------------------------------ shape of the graph

\* the nodes that an edge of frame c leads to from a node of from
Successors(c, from) ==
    {edges[c][k].dst : k \in {k \in 1..Len(edges[c]) : edges[c][k].src \in from}}

\* the nodes reached from frontier by one edge or more, seen already found
RECURSIVE ReachedFrom(_, _, _)
ReachedFrom(c, seen, frontier) ==
    IF frontier = {} THEN seen
    ELSE LET next == Successors(c, frontier) \ seen
         IN  ReachedFrom(c, seen \cup next, next)

Reached(c, node) == ReachedFrom(c, {}, {node})

EdgeShapes ==
    { <<"I", "S">>, <<"I", "M">>, <<"I", "O">>, <<"S", "S">>, <<"S", "M">>,
      <<"S", "O">>, <<"M", "M">>, <<"M", "O">> }

\* C28: in a returned graph every edge leads from an input, a splitter or a
\* merger to a splitter, a merger or an output, never from a merger to a
\* splitter; no node reaches itself; no two edges join the same two nodes in
\* the same direction; and every device is reached from an input and reaches
\* an output
C28_GraphShape ==
    \A c \in Balancers :
        pc[c] = "returned" =>
            /\ \A k \in 1..Len(edges[c]) :
                   <<edges[c][k].src.kind, edges[c][k].dst.kind>> \in EdgeShapes
            /\ \A k \in 1..Len(nodes[c]) : nodes[c][k] \notin Reached(c, nodes[c][k])
            /\ \A j, k \in 1..Len(edges[c]) :
                   (edges[c][j].src = edges[c][k].src /\ edges[c][j].dst = edges[c][k].dst)
                       => j = k
            /\ \A k \in 1..Len(Devices(c)) :
                   /\ \E i \in 1..Len(inputs[c]) :
                          Devices(c)[k] \in Reached(c, NodeId("I", i - 1))
                   /\ \E j \in 1..Len(outputs[c]) :
                          NodeId("O", j - 1) \in Reached(c, Devices(c)[k])

\* the large example has returned: a graph with edges of five shapes, where
\* splitters feed splitters and the root of the second tree reaches a merger
C28_Witness ==
    /\ pc[1] = "returned" /\ fn[1] = "design_balancer" /\ IsLarge(1)
    /\ {<<edges[1][k].src.kind, edges[1][k].dst.kind>> : k \in 1..Len(edges[1])}
           = {<<"I", "S">>, <<"S", "S">>, <<"S", "O">>, <<"S", "M">>, <<"M", "O">>}
    /\ NodeId("M", 16) \in Reached(1, NodeId("I", 1))
    /\ NodeId("I", 1) \notin Reached(1, NodeId("I", 1))


\* ------------------------------------------------- sparsity of the matrix

\* the flow assignment of frame c has begun
AssignmentBegun(c) ==
    pc[c] \in {"assign_for", "assign_while", "graph", "split_for", "split_while",
               "merge_for", "merge_while", "returned"}

\* the inputs taken off the queue for good: each left one entry that used it up
ConsumedInputs(c) == Len(inputs[c]) - Len(available_inputs[c])

\* the entries that used a part of their input only
PartialEntries(c) == EntryCount(c) - ConsumedInputs(c)

PositiveOutputs(c) == {j \in 1..Len(outputs[c]) : outputs[c][j] > 0}

\* C29: a call with N >= 1 inputs and M >= 1 outputs never holds more than
\* N + M - 1 matrix entries: every entry used its input up or completed an
\* output with a part of its input, and the last positive output is never
\* completed by a part
C29_SparseMatrix ==
    \A c \in Balancers :
        AssignmentBegun(c) =>
            /\ (Len(inputs[c]) >= 1 /\ Len(outputs[c]) >= 1) =>
                   EntryCount(c) <= Len(inputs[c]) + Len(outputs[c]) - 1
            /\ PartialEntries(c) >= 0
            /\ IF PositiveOutputs(c) = {}
               THEN EntryCount(c) = 0
               ELSE PartialEntries(c) <= Cardinality(PositiveOutputs(c)) - 1

\* a returned call whose matrix holds N + M - 1 = 4 entries, two of them
\* completing an output with a part of an input: [2, 2] -> [1, 2, 1]
C29_Witness ==
    \E c \in Balancers :
        /\ pc[c] = "returned"
        /\ inputs[c] = <<2, 2>> /\ outputs[c] = <<1, 2, 1>>
        /\ EntryCount(c) = 4
        /\ PartialEntries(c) = 2


\* ------------------------------------------- contributors of an output

\* the split trees of frame c are built
SplitTreesBuilt(c) == pc[c] \in {"merge_for", "merge_while", "returned"}

\* the node that input row r reports as the feeder of output out
Feeder(c, r, out) == DictGet(input_outputs[c][r][2], out)[1]

\* C30: once the split trees are built, the feeders that different inputs
\* report for one output are different nodes, each the input's own node or a
\* splitter of the input's own tree; so the sources collected for an output
\* are as many as the inputs with a matrix entry for it and their flows sum
\* to the output's magnitude, and these are the streams build_merge_tree
\* starts from
C30_DistinctFeeders ==
    \A c \in Balancers :
        SplitTreesBuilt(c) =>
            /\ \A j \in 1..Len(outputs[c]) :
                   LET collected == CollectSources(<<>>, flow_matrix[c],
                                                   input_outputs[c], j - 1)
                       rows == {r \in 1..Len(flow_matrix[c]) :
                                   DictHas(flow_matrix[c][r][2], j - 1)}
                   IN  /\ Len(collected) = Contributors(c, j - 1)
                       /\ SumSeq(DictValues(collected)) = outputs[c][j]
                       /\ \A r, q \in rows :
                              r # q => Feeder(c, r, j - 1) # Feeder(c, q, j - 1)
                       /\ \A r \in rows :
                              LET own == NodeId("I", input_outputs[c][r][1])
                                  feeder == Feeder(c, r, j - 1)
                              IN  \/ feeder = own
                                  \/ /\ feeder.kind = "S"
                                     /\ SplitTreeInput(c, feeder) = own
            /\ pc[c] = "merge_while" =>
                   /\ Len(sources[c]) = Contributors(c, out_idx[c])
                   /\ SumSeq(DictValues(sources[c])) = outputs[c][out_idx[c] + 1]
                   /\ Len(streams[c]) <= Len(sources[c])

\* build_merge_tree has just sorted the two streams of output 2 of
\* [150, 150] -> [60, 60, 60, 60, 60]: the splitters S0 and S1, one of each
\* input's tree, 30 each
C30_Witness ==
    /\ pc[1] = "merge_while" /\ fn[1] = "design_balancer"
    /\ inputs[1] = <<150, 150>> /\ outputs[1] = <<60, 60, 60, 60, 60>>
    /\ out_idx[1] = 2
    /\ streams[1] = <<<<NodeId("S", 1), 30>>, <<NodeId("S", 0), 30>>>>
    /\ sources[1] = <<<<NodeId("S", 0), 30>>, <<NodeId("S", 1), 30>>>>

====
